---- MODULE Spec2Model ----
(***************************************************************************)
(* Model of the nimbus engine's resilience layer, budget enforcement and   *)
(* services:                                                               *)
(*   - CircuitBreaker, retry and ErrorTracker of services/resilience.py    *)
(*   - ProviderAdapter._resilient_call of providers/base.py                *)
(*   - record_spending / check_budget / enforce_budget of                  *)
(*     services/budget_monitor.py                                          *)
(*   - budget_lockdown of services/orchestrator.py                         *)
(*   - ProviderRegistry of services/registry.py                            *)
(*   - the periodic loops of services/scheduler.py and                     *)
(*     services/spending_sync.py                                           *)
(*   - lifespan of app.py and perform_action of api/resources.py           *)
(* Each component has its own specification over the shared variables; a   *)
(* component that a specification does not exercise stays in its initial   *)
(* state.                                                                  *)
(***************************************************************************)
EXTENDS Integers, Sequences, FiniteSets, TLC

(***************************************************************************)
(* Bounds of the model.                                                    *)
(***************************************************************************)
MaxThreshold == 2
MaxResetTimeout == 2
MaxTime == 3
MaxFailures == 3

(***************************************************************************)
(* CircuitState (resilience.py:78-81).                                     *)
(***************************************************************************)
CLOSED == "closed"
OPEN == "open"
HALF_OPEN == "half_open"
CircuitState == {CLOSED, OPEN, HALF_OPEN}

\* Threads that run CircuitBreaker.call concurrently (request handlers and
\* scheduler work share one breaker per adapter).
Threads == {"t1", "t2"}

\* What a wrapped function can do: return a value or raise an Exception.
Values == {"v1", "v2"}
Errors == {"E1", "E2"}
NoOutcome == <<"none", "none">>
NoStatus == [state |-> "none", failure_count |-> 0]
CircuitBreakerError == <<"raise", "CircuitBreakerError">>

VARIABLES
    \* ---- CircuitBreaker fields (resilience.py:97-110)
    failure_threshold,   \* self.failure_threshold
    reset_timeout,       \* self.reset_timeout
    cb_state,            \* self._state
    failure_count,       \* self._failure_count
    last_failure_time,   \* self._last_failure_time
    now,                 \* time.time()
    \* ---- one frame of CircuitBreaker.call per thread
    pc,                  \* "idle" | "running" | "done" | "rejected"
    seen,                \* the local `state` of call (line 151) while func
                         \* runs; CLOSED in a frame that does not use it
    invoked,             \* how often this call has invoked func
    succ_rec,            \* how often this call has applied record_success
    fail_rec,            \* how often this call has applied record_failure
    fn_outcome,          \* what func did: <<"return", v>> or <<"raise", e>>
    outcome,             \* what call did towards its caller
    \* ---- observers
    read_result,         \* what the observer's last `state` read returned
    gs_pc,               \* get_status: "idle" | "have_state"
    status,              \* the dict get_status returned, if that was the
                         \* observer's last operation
    \* ---- history
    consec,              \* record_failure calls since the last record_success
    last_probe,          \* whether the last record_success / record_failure
                         \* found the breaker HALF_OPEN: "none" | "succeeded"
                         \* | "failed"
    \* ---- retry (resilience.py:21-70): one run of wrapper
    rcfg,                \* the decorator's arguments
    r_pc,                \* "calling" | "sleeping" | "returned" | "raised"
    attempt,             \* the loop variable `attempt`
    delay,               \* the local `delay`
    last_exception,      \* the local `last_exception`
    r_result,            \* what wrapper did towards its caller
    calls,               \* what func did at each invocation, in order
    sleeps,              \* the time.sleep calls: <<delay, jitter percent>>
    \* ---- the database and the results of budget enforcement
    resources,           \* CloudResource rows, by id
    rules,               \* BudgetRule rows, by id
    spending,            \* SpendingRecord rows
    action_log,          \* ActionLog rows, in insertion order
    actions_taken,       \* what the last enforce_budget returned
    adapter_calls,       \* adapter.scale_down calls of the last budget_lockdown
    lockdown_result,     \* what the last budget_lockdown returned
    check_result,        \* what check_budget returned, if it was the last
                         \* operation on the ledger
    \* ---- ErrorTracker fields (resilience.py:186-189)
    et_max,              \* self._max
    et_entries,          \* self._entries, oldest first
    \* ---- the tracker's callers and history
    et_seq,              \* how many record calls have been made (an entry's
                         \* serial number stands for its timestamp and message)
    et_recorded,         \* every entry recorded since the last clear, in order
    et_returned          \* what get_errors returned, if it was the last
                         \* operation on the tracker

VARIABLES
    \* ---- ProviderRegistry fields (registry.py:16-18)
    adapter_classes,     \* self._adapter_classes: provider_type -> adapter class
    instances,           \* self._instances: provider_id -> adapter object
    \* ---- what the registry reads and creates
    configs,             \* ProviderConfig rows: provider_id -> provider_type,
                         \* None where the table has no such row
    next_instance,       \* how many adapter objects cls() has created; the
                         \* number is the object's identity
    ga,                  \* one frame of get_adapter per thread
    \* ---- history
    authed,              \* per provider, the objects whose authenticate
                         \* returned since the provider's last eviction
    handed,              \* per provider, the objects get_adapter returned
                         \* since the provider's last eviction
    \* ---- the periodic loops (scheduler.py, spending_sync.py), one asyncio
    \* ---- task each
    task,                \* where the loop's coroutine stands: "none" (no
                         \* task), "ready" (scheduled to run its next cycle),
                         \* "alerting" (awaiting _send_budget_alert),
                         \* "sleeping" (awaiting asyncio.sleep), "exited"
    cancel_requested,    \* task.cancel() was called and CancelledError is
                         \* not yet raised in the coroutine
    last_cycle,          \* how the loop's last finished cycle ended:
                         \* "none" | "ok" | "error"
    alerts_left,         \* budget cycle: entries of `warnings` not yet
                         \* dispatched
    must_enforce,        \* budget cycle: `exceeded` is not empty
    enforced,            \* budget cycle: enforce_budget was called
    \* ---- the application (app.py) and its request handlers
    app,                 \* lifespan: "created" | "running" | "stopped"
    op_calls,            \* the adapter operations the last perform_action
                         \* request invoked, in order
    response,            \* the HTTP status of the last response, 0 before
                         \* the first
    \* ---- ErrorTracker under concurrent callers
    et_lock,             \* self._lock: the thread inside record's `with`
                         \* block, None when the lock is free
    et_count             \* what the last read of the `count` property
                         \* returned, if there was one

breakerVars == <<failure_threshold, reset_timeout, cb_state, failure_count,
                 last_failure_time, now, pc, seen, invoked, succ_rec, fail_rec,
                 fn_outcome, outcome, read_result, gs_pc, status,
                 consec, last_probe>>

retryVars == <<rcfg, r_pc, attempt, delay, last_exception, r_result, calls, sleeps>>

budgetVars == <<resources, rules, spending, action_log, actions_taken,
                adapter_calls, lockdown_result>>

ledgerVars == <<check_result>>

trackerVars == <<et_max, et_entries, et_seq, et_recorded, et_returned>>

VARIABLES
    \* ---- adapter objects (providers/base.py:21-32)
    circuit_breakers,    \* adapter object -> its _circuit_breaker, for the
                         \* objects whose _get_circuit_breaker has run, with
                         \* the provider the object was obtained for
    \* ---- sync_spending_once (spending_sync.py:21-76)
    sync_result,         \* what the last run returned or raised
    \* ---- record_spending (budget_monitor.py:30-55), one session per caller
    rs                   \* one frame of record_spending per session

registryVars == <<adapter_classes, instances, configs, next_instance, ga,
                  authed, handed>>

loopVars == <<task, cancel_requested, last_cycle, alerts_left, must_enforce, enforced>>

apiVars == <<app, op_calls, response>>

lockVars == <<et_lock, et_count>>

supportVars == <<circuit_breakers, sync_result, rs>>

serviceVars == <<registryVars, loopVars, apiVars, lockVars, supportVars>>

nonRegistryVars == <<breakerVars, retryVars, budgetVars, ledgerVars, trackerVars,
                     loopVars, apiVars, lockVars, supportVars>>
nonLoopVars == <<breakerVars, retryVars, budgetVars, ledgerVars, trackerVars,
                 registryVars, apiVars, lockVars, supportVars>>
nonTrackerLockVars == <<breakerVars, retryVars, budgetVars, ledgerVars,
                        registryVars, loopVars, apiVars, supportVars>>

nonBreakerVars == <<retryVars, budgetVars, ledgerVars, trackerVars, serviceVars>>
nonRetryVars == <<breakerVars, budgetVars, ledgerVars, trackerVars, serviceVars>>
nonBudgetVars == <<breakerVars, retryVars, ledgerVars, trackerVars, serviceVars>>
nonTrackerVars == <<breakerVars, retryVars, budgetVars, ledgerVars, serviceVars>>

vars == <<breakerVars, retryVars, budgetVars, ledgerVars, trackerVars, serviceVars>>

(***************************************************************************)
(* CircuitBreaker: the state transitions as functions of the fields.       *)
(***************************************************************************)

\* The `state` property (resilience.py:112-119): the stored state after a read.
StateAfterReadEager(st, t, last, timeout) ==
    IF st = OPEN THEN HALF_OPEN ELSE st

StateAfterReadStrict(st, t, last, timeout) ==
    IF st = OPEN /\ t - last > timeout THEN HALF_OPEN ELSE st

StateAfterRead(st, t, last, timeout) ==
    IF st = OPEN /\ t - last >= timeout THEN HALF_OPEN ELSE st

\* record_success (resilience.py:125-131): the state is assigned CLOSED
\* whatever it was; only the log line depends on HALF_OPEN.
StateAfterSuccessKept(st) == st

StateAfterSuccess(st) == CLOSED

\* record_failure (resilience.py:139-147); cnt is the incremented count.
StateAfterFailureStrict(st, cnt, thr) ==
    IF st = HALF_OPEN THEN OPEN
    ELSE IF cnt > thr THEN OPEN
    ELSE st

StateAfterFailure(st, cnt, thr) ==
    IF st = HALF_OPEN THEN OPEN
    ELSE IF cnt >= thr THEN OPEN
    ELSE st

\* __init__ (resilience.py:107-110) with a fresh frame for every thread.
BreakerFresh ==
    /\ cb_state = CLOSED
    /\ failure_count = 0
    /\ last_failure_time = 0
    /\ now = 0
    /\ pc = [t \in Threads |-> "idle"]
    /\ seen = [t \in Threads |-> CLOSED]
    /\ invoked = [t \in Threads |-> 0]
    /\ succ_rec = [t \in Threads |-> 0]
    /\ fail_rec = [t \in Threads |-> 0]
    /\ fn_outcome = [t \in Threads |-> NoOutcome]
    /\ outcome = [t \in Threads |-> NoOutcome]
    /\ read_result = CLOSED
    /\ gs_pc = "idle"
    /\ status = NoStatus
    /\ consec = 0
    /\ last_probe = "none"

\* __init__ (resilience.py:97-110), the arguments drawn from the bounds.
BreakerInit ==
    /\ failure_threshold \in 1..MaxThreshold
    /\ reset_timeout \in 1..MaxResetTimeout
    /\ BreakerFresh

\* A breaker with the default arguments (resilience.py:99-100) that nobody uses.
BreakerIdle ==
    /\ failure_threshold = 5
    /\ reset_timeout = 60
    /\ BreakerFresh

frameVars == <<pc, seen, invoked, succ_rec, fail_rec, fn_outcome, outcome>>
observerVars == <<read_result, gs_pc, status>>
paramVars == <<failure_threshold, reset_timeout>>

\* The clock advances on its own.
Tick ==
    /\ now < MaxTime
    /\ now' = now + 1
    /\ UNCHANGED <<nonBreakerVars, paramVars, cb_state, failure_count, last_failure_time,
                   frameVars, observerVars, consec, last_probe>>

\* A direct read of the `state` property (resilience.py:112-119) by the
\* observer (a monitoring caller), which also runs get_status.
StateRead ==
    /\ gs_pc = "idle"
    /\ cb_state' = StateAfterRead(cb_state, now, last_failure_time, reset_timeout)
    /\ read_result' = cb_state'
    /\ status' = NoStatus
    /\ UNCHANGED <<nonBreakerVars, paramVars, failure_count, last_failure_time, now,
                   frameVars, gs_pc, consec, last_probe>>

\* record_success() called directly (resilience.py:125-131).
RecordSuccess ==
    /\ cb_state' = StateAfterSuccess(cb_state)
    /\ failure_count' = 0
    /\ consec' = 0
    /\ last_probe' = IF cb_state = HALF_OPEN THEN "succeeded" ELSE "none"
    /\ UNCHANGED <<nonBreakerVars, paramVars, last_failure_time, now, frameVars, observerVars>>

\* record_failure() called directly (resilience.py:133-147).
RecordFailure ==
    /\ failure_count < MaxFailures
    /\ failure_count' = failure_count + 1
    /\ last_failure_time' = now
    /\ cb_state' = StateAfterFailure(cb_state, failure_count + 1, failure_threshold)
    /\ consec' = consec + 1
    /\ last_probe' = IF cb_state = HALF_OPEN THEN "failed" ELSE "none"
    /\ UNCHANGED <<nonBreakerVars, paramVars, now, frameVars, observerVars>>

(***************************************************************************)
(* CircuitBreaker.call (resilience.py:149-165), one frame per thread.      *)
(* `self.state` is read under the lock (line 151); func runs outside any   *)
(* lock; record_success / record_failure take the lock again.              *)
(***************************************************************************)

\* Lines 151-157 when the read returns OPEN: raise CircuitBreakerError.
CallRejectCounted(t) ==
    /\ pc[t] = "idle"
    /\ StateAfterRead(cb_state, now, last_failure_time, reset_timeout) = OPEN
    /\ failure_count < MaxFailures
    /\ seen' = [seen EXCEPT ![t] = OPEN]
    /\ failure_count' = failure_count + 1
    /\ last_failure_time' = now
    /\ cb_state' = StateAfterFailure(cb_state, failure_count + 1, failure_threshold)
    /\ pc' = [pc EXCEPT ![t] = "rejected"]
    /\ outcome' = [outcome EXCEPT ![t] = CircuitBreakerError]
    /\ UNCHANGED <<nonBreakerVars, paramVars, now, invoked, succ_rec, fail_rec, fn_outcome,
                   observerVars, consec, last_probe>>

CallReject(t) ==
    /\ pc[t] = "idle"
    /\ StateAfterRead(cb_state, now, last_failure_time, reset_timeout) = OPEN
    /\ seen' = [seen EXCEPT ![t] = OPEN]
    /\ pc' = [pc EXCEPT ![t] = "rejected"]
    /\ outcome' = [outcome EXCEPT ![t] = CircuitBreakerError]
    /\ UNCHANGED <<nonBreakerVars, paramVars, cb_state, failure_count, last_failure_time, now,
                   invoked, succ_rec, fail_rec, fn_outcome, observerVars, consec, last_probe>>

\* Lines 151-152 and 160 when the read returns CLOSED or HALF_OPEN: func is
\* invoked.
CallInvoke(t) ==
    /\ pc[t] = "idle"
    /\ StateAfterRead(cb_state, now, last_failure_time, reset_timeout) # OPEN
    /\ cb_state' = StateAfterRead(cb_state, now, last_failure_time, reset_timeout)
    /\ seen' = [seen EXCEPT ![t] = cb_state']
    /\ invoked' = [invoked EXCEPT ![t] = @ + 1]
    /\ pc' = [pc EXCEPT ![t] = "running"]
    /\ UNCHANGED <<nonBreakerVars, paramVars, failure_count, last_failure_time, now,
                   succ_rec, fail_rec, fn_outcome, outcome, observerVars, consec, last_probe>>

\* Lines 160-162: func returns v, record_success(), return result.
FnReturn(t, v) ==
    /\ pc[t] = "running"
    /\ fn_outcome' = [fn_outcome EXCEPT ![t] = <<"return", v>>]
    /\ cb_state' = StateAfterSuccess(cb_state)
    /\ failure_count' = 0
    /\ consec' = 0
    /\ last_probe' = IF cb_state = HALF_OPEN THEN "succeeded" ELSE "none"
    /\ succ_rec' = [succ_rec EXCEPT ![t] = @ + 1]
    /\ outcome' = [outcome EXCEPT ![t] = <<"return", v>>]
    /\ pc' = [pc EXCEPT ![t] = "done"]
    /\ seen' = [seen EXCEPT ![t] = CLOSED]
    /\ UNCHANGED <<nonBreakerVars, paramVars, last_failure_time, now, invoked, fail_rec,
                   observerVars>>

\* The count a call may still raise: the bound, or the threshold where that
\* is larger, so that a breaker can always reach its threshold.
FailureCap == IF failure_threshold > MaxFailures THEN failure_threshold ELSE MaxFailures

\* Lines 163-165: func raises e, record_failure(), re-raise.
FnRaiseSwallowed(t, e) ==
    /\ pc[t] = "running"
    /\ failure_count < FailureCap
    /\ fn_outcome' = [fn_outcome EXCEPT ![t] = <<"raise", e>>]
    /\ failure_count' = failure_count + 1
    /\ last_failure_time' = now
    /\ cb_state' = StateAfterFailure(cb_state, failure_count + 1, failure_threshold)
    /\ consec' = consec + 1
    /\ last_probe' = IF cb_state = HALF_OPEN THEN "failed" ELSE "none"
    /\ fail_rec' = [fail_rec EXCEPT ![t] = @ + 1]
    /\ outcome' = [outcome EXCEPT ![t] = <<"return", "None">>]
    /\ pc' = [pc EXCEPT ![t] = "done"]
    /\ seen' = [seen EXCEPT ![t] = CLOSED]
    /\ UNCHANGED <<nonBreakerVars, paramVars, now, invoked, succ_rec, observerVars>>

FnRaise(t, e) ==
    /\ pc[t] = "running"
    /\ failure_count < FailureCap
    /\ fn_outcome' = [fn_outcome EXCEPT ![t] = <<"raise", e>>]
    /\ failure_count' = failure_count + 1
    /\ last_failure_time' = now
    /\ cb_state' = StateAfterFailure(cb_state, failure_count + 1, failure_threshold)
    /\ consec' = consec + 1
    /\ last_probe' = IF cb_state = HALF_OPEN THEN "failed" ELSE "none"
    /\ fail_rec' = [fail_rec EXCEPT ![t] = @ + 1]
    /\ outcome' = [outcome EXCEPT ![t] = <<"raise", e>>]
    /\ pc' = [pc EXCEPT ![t] = "done"]
    /\ seen' = [seen EXCEPT ![t] = CLOSED]
    /\ UNCHANGED <<nonBreakerVars, paramVars, now, invoked, succ_rec, observerVars>>

\* The caller takes the result; the thread is free for its next call.
CallExit(t) ==
    /\ pc[t] \in {"done", "rejected"}
    /\ pc' = [pc EXCEPT ![t] = "idle"]
    /\ seen' = [seen EXCEPT ![t] = CLOSED]
    /\ invoked' = [invoked EXCEPT ![t] = 0]
    /\ succ_rec' = [succ_rec EXCEPT ![t] = 0]
    /\ fail_rec' = [fail_rec EXCEPT ![t] = 0]
    /\ fn_outcome' = [fn_outcome EXCEPT ![t] = NoOutcome]
    /\ outcome' = [outcome EXCEPT ![t] = NoOutcome]
    /\ UNCHANGED <<nonBreakerVars, paramVars, cb_state, failure_count, last_failure_time, now,
                   observerVars, consec, last_probe>>

(***************************************************************************)
(* get_status (resilience.py:167-175): the dict is built entry by entry;   *)
(* "state" reads the property under the lock, "failure_count" then reads   *)
(* the field without it.                                                   *)
(***************************************************************************)
GetStatusReadState ==
    /\ gs_pc = "idle"
    /\ cb_state' = StateAfterRead(cb_state, now, last_failure_time, reset_timeout)
    /\ read_result' = cb_state'
    /\ gs_pc' = "have_state"
    /\ status' = NoStatus
    /\ UNCHANGED <<nonBreakerVars, paramVars, failure_count, last_failure_time, now, frameVars,
                   consec, last_probe>>

GetStatusReadCount ==
    /\ gs_pc = "have_state"
    /\ status' = [state |-> read_result, failure_count |-> failure_count]
    /\ gs_pc' = "idle"
    /\ UNCHANGED <<nonBreakerVars, paramVars, cb_state, failure_count, last_failure_time, now,
                   frameVars, read_result, consec, last_probe>>

(***************************************************************************)
(* retry (resilience.py:21-70): one run of the decorated function.         *)
(***************************************************************************)
MaxAttempts == 3
MaxBaseDelay == 2
MaxDelayCap == 2

BackoffFactors == {1, 2}
\* 0.75 + random.random() * 0.5 lies in [0.75, 1.25) (resilience.py:59).
JitterPercents == {75, 100, 124}
\* retryable_exceptions: some kinds, or every Exception (the default).
RetryableSets == {{"E1"}, Errors}

Min(a, b) == IF a <= b THEN a ELSE b

\* `except retryable_exceptions` (resilience.py:48).
IsRetryableAny(e, retryable) == TRUE

IsRetryable(e, retryable) == e \in retryable

\* `if attempt == max_attempts` (resilience.py:50).
IsLastAttemptEarly(a, max) == a + 1 >= max

IsLastAttempt(a, max) == a = max

\* `delay = min(delay * backoff_factor, max_delay)` (resilience.py:66).
NextDelay(d, factor, cap) == Min(d * factor, cap)

\* wrapper is entered: lines 42-43, about to make the first attempt.
RetryInit ==
    /\ rcfg \in [max_attempts : 1..MaxAttempts,
                 base_delay : 1..MaxBaseDelay,
                 max_delay : 1..MaxDelayCap,
                 backoff_factor : BackoffFactors,
                 jitter : BOOLEAN,
                 retryable : RetryableSets]
    /\ r_pc = "calling"
    /\ attempt = 1
    /\ delay = rcfg.base_delay
    /\ last_exception = "None"
    /\ r_result = NoOutcome
    /\ calls = <<>>
    /\ sleeps = <<>>

\* No decorated function is running (the defaults of resilience.py:22-27).
RetryIdle ==
    /\ rcfg = [max_attempts |-> 3, base_delay |-> 1, max_delay |-> 30,
               backoff_factor |-> 2, jitter |-> TRUE, retryable |-> Errors]
    /\ r_pc = "idle"
    /\ attempt = 1
    /\ delay = 1
    /\ last_exception = "None"
    /\ r_result = NoOutcome
    /\ calls = <<>>
    /\ sleeps = <<>>

\* Line 47: func returns v and wrapper returns it.
AttemptReturns(v) ==
    /\ r_pc = "calling"
    /\ calls' = Append(calls, <<"return", v>>)
    /\ r_result' = <<"return", v>>
    /\ r_pc' = "returned"
    /\ UNCHANGED <<nonRetryVars, rcfg, attempt, delay, last_exception, sleeps>>

\* Lines 48-65: a retryable failure before the last attempt; time.sleep is
\* called with the delay, jittered by j percent.
AttemptFailsRetry(e, j) ==
    /\ r_pc = "calling"
    /\ IsRetryable(e, rcfg.retryable)
    /\ ~IsLastAttempt(attempt, rcfg.max_attempts)
    /\ rcfg.jitter \/ j = 100
    /\ calls' = Append(calls, <<"raise", e>>)
    /\ last_exception' = e
    /\ sleeps' = Append(sleeps, <<delay, j>>)
    /\ r_pc' = "sleeping"
    /\ UNCHANGED <<nonRetryVars, rcfg, attempt, delay, r_result>>

\* Lines 65-66 and 45: the sleep ends, the delay grows, the next attempt starts.
SleepEnds ==
    /\ r_pc = "sleeping"
    /\ delay' = NextDelay(delay, rcfg.backoff_factor, rcfg.max_delay)
    /\ attempt' = attempt + 1
    /\ r_pc' = "calling"
    /\ UNCHANGED <<nonRetryVars, rcfg, last_exception, r_result, calls, sleeps>>

\* Lines 48-55: a retryable failure on the last attempt is re-raised.
AttemptFailsLast(e) ==
    /\ r_pc = "calling"
    /\ IsRetryable(e, rcfg.retryable)
    /\ IsLastAttempt(attempt, rcfg.max_attempts)
    /\ calls' = Append(calls, <<"raise", e>>)
    /\ last_exception' = e
    /\ r_result' = <<"raise", e>>
    /\ r_pc' = "raised"
    /\ UNCHANGED <<nonRetryVars, rcfg, attempt, delay, sleeps>>

\* Line 47 raising a kind the except clause of line 48 does not match.
AttemptFailsOther(e) ==
    /\ r_pc = "calling"
    /\ ~IsRetryable(e, rcfg.retryable)
    /\ calls' = Append(calls, <<"raise", e>>)
    /\ r_result' = <<"raise", e>>
    /\ r_pc' = "raised"
    /\ UNCHANGED <<nonRetryVars, rcfg, attempt, delay, last_exception, sleeps>>

NextRetry ==
    \/ \E v \in Values : AttemptReturns(v)
    \/ \E e \in Errors, j \in JitterPercents : AttemptFailsRetry(e, j)
    \/ SleepEnds
    \/ \E e \in Errors : AttemptFailsLast(e)
    \/ \E e \in Errors : AttemptFailsOther(e)

(***************************************************************************)
(* Budget enforcement: budget_monitor.py and orchestrator.budget_lockdown. *)
(* Amounts are integers; alert_threshold is in percent.                    *)
(***************************************************************************)
MaxCost == 2
MaxLogLen == 2

None == "None"
Providers == {"p1", "p2"}
ResourceIds == {"r1", "r2"}
RuleIds == {"b1", "b2"}
\* BudgetRule.action_on_exceed (models/budget.py:70-72).
RuleActions == {"alert", "scale_down", "terminate_ephemeral", "firewall_lockdown"}
\* CloudResource.protection_level (models/resource.py:29-31).
ProtectionLevels == {"critical", "standard", "ephemeral"}
\* CloudResource.status values the queries tell apart (models/resource.py:27).
Statuses == {"running", "stopped"}
\* current_period() (budget_monitor.py:16-18) and an earlier month.
CurrentPeriod == "2026-11"
EarlierPeriod == "2026-10"

\* The order in which `q.all()` returns the rules (insertion order).
RuleOrder == <<"b1", "b2">>

RECURSIVE SumAmounts(_)
SumAmounts(rows) ==
    IF rows = {} THEN 0
    ELSE LET row == CHOOSE x \in rows : TRUE
         IN row.amount + SumAmounts(rows \ {row})

\* get_spending (budget_monitor.py:21-27).
GetSpending(provider_id, period) ==
    SumAmounts({row \in spending :
                   /\ row.period = period
                   /\ (provider_id # None => row.provider_id = provider_id)})

\* The classification of check_budget (budget_monitor.py:70-84):
\* utilization = spent / limit, or 0 when the limit is not positive.
StatusOfStrict(spent, limit, threshold) ==
    LET num == IF limit > 0 THEN spent ELSE 0
        den == IF limit > 0 THEN limit ELSE 1
    IN IF num >= den THEN "exceeded"
       ELSE IF num * 100 > threshold * den THEN "warning"
       ELSE "ok"

StatusOf(spent, limit, threshold) ==
    LET num == IF limit > 0 THEN spent ELSE 0
        den == IF limit > 0 THEN limit ELSE 1
    IN IF num >= den THEN "exceeded"
       ELSE IF num * 100 >= threshold * den THEN "warning"
       ELSE "ok"

\* The messages check_budget attaches (budget_monitor.py:72-84), by kind.
AlertsOf(st) ==
    IF st = "exceeded" THEN <<"Budget exceeded">>
    ELSE IF st = "warning" THEN <<"Budget warning">>
    ELSE <<>>

\* The rules check_budget evaluates (budget_monitor.py:60-65), in order.
RulesInScopeNoGlobal(provider_id) ==
    SelectSeq(RuleOrder,
              LAMBDA b : /\ rules[b].is_active
                         /\ (provider_id # None =>
                               rules[b].provider_id = provider_id))

RulesInScope(provider_id) ==
    SelectSeq(RuleOrder,
              LAMBDA b : /\ rules[b].is_active
                         /\ (provider_id # None =>
                               rules[b].provider_id \in {provider_id, None}))

\* check_budget (budget_monitor.py:58-97): one BudgetStatus per rule.
CheckBudget(provider_id) ==
    LET scope == RulesInScope(provider_id)
    IN [i \in 1..Len(scope) |->
          LET rule == rules[scope[i]]
              spent == GetSpending(rule.provider_id, CurrentPeriod)
          IN [rule |-> scope[i],
              provider_id |-> rule.provider_id,
              total_spent |-> spent,
              monthly_limit |-> rule.monthly_limit,
              status |-> StatusOf(spent, rule.monthly_limit, rule.alert_threshold),
              action_on_exceed |-> rule.action_on_exceed,
              alerts |-> AlertsOf(StatusOf(spent, rule.monthly_limit,
                                           rule.alert_threshold))]]

\* _get_enforceable_resources (budget_monitor.py:141-160), before ordering.
EnforceableResourcesWithCritical(provider_id, action) ==
    {r \in ResourceIds :
        /\ resources[r].status = "running"
        /\ (provider_id # None => resources[r].provider_id = provider_id)
        /\ (action = "terminate_ephemeral" =>
               resources[r].auto_terminate /\ resources[r].protection_level = "ephemeral")
        /\ (action = "scale_down" => resources[r].auto_terminate)}

EnforceableResourcesNoOptIn(provider_id, action) ==
    {r \in ResourceIds :
        /\ resources[r].status = "running"
        /\ resources[r].protection_level # "critical"
        /\ (provider_id # None => resources[r].provider_id = provider_id)
        /\ (action = "terminate_ephemeral" =>
               resources[r].auto_terminate /\ resources[r].protection_level = "ephemeral")}

EnforceableResources(provider_id, action) ==
    {r \in ResourceIds :
        /\ resources[r].status = "running"
        /\ resources[r].protection_level # "critical"
        /\ (provider_id # None => resources[r].provider_id = provider_id)
        /\ (action = "terminate_ephemeral" =>
               resources[r].auto_terminate /\ resources[r].protection_level = "ephemeral")
        /\ (action = "scale_down" => resources[r].auto_terminate)}

\* The rows of budget_lockdown's query (orchestrator.py:118-124), before ordering.
LockdownCandidates(provider_id) ==
    {r \in ResourceIds :
        /\ resources[r].provider_id = provider_id
        /\ resources[r].status = "running"
        /\ resources[r].protection_level # "critical"}

\* The rows budget_lockdown calls the adapter for (orchestrator.py:135-138).
LockdownTried(provider_id) ==
    {r \in LockdownCandidates(provider_id) : resources[r].auto_terminate}

\* order_by(monthly_cost_estimate.desc()) (budget_monitor.py:160,
\* orchestrator.py:125): the orders of all rows a query may use; rows of equal
\* cost come in either order.
CostOrdersAny ==
    {ord \in [1..Cardinality(ResourceIds) -> ResourceIds] :
        \A i, j \in DOMAIN ord : i # j => ord[i] # ord[j]}

CostOrders ==
    {ord \in [1..Cardinality(ResourceIds) -> ResourceIds] :
        /\ \A i, j \in DOMAIN ord : i # j => ord[i] # ord[j]
        /\ \A i, j \in DOMAIN ord :
              i < j => resources[ord[i]].monthly_cost_estimate
                          >= resources[ord[j]].monthly_cost_estimate}

Ordered(ord, set) == SelectSeq(ord, LAMBDA r : r \in set)

\* The entries enforce_budget produces for one BudgetStatus
\* (budget_monitor.py:105-136), and the ActionLog rows it adds.
EntriesForLockdownScales(bs, ord) ==
    IF bs.status # "exceeded" THEN <<>>
    ELSE IF bs.action_on_exceed = "alert"
    THEN <<[provider_id |-> bs.provider_id, resource_id |-> None, action |-> "alert"]>>
    ELSE LET targets == Ordered(ord, EnforceableResources(bs.provider_id, "scale_down"))
         IN [i \in 1..Len(targets) |->
               [provider_id |-> bs.provider_id,
                resource_id |-> targets[i],
                action |-> IF bs.action_on_exceed = "terminate_ephemeral"
                           THEN "terminate" ELSE "scale_down"]]

EntriesForAlertFallback(bs, ord) ==
    IF bs.status # "exceeded" THEN <<>>
    ELSE IF bs.action_on_exceed = "alert"
    THEN <<[provider_id |-> bs.provider_id, resource_id |-> None, action |-> "alert"]>>
    ELSE IF bs.action_on_exceed \in {"scale_down", "terminate_ephemeral"}
    THEN LET targets == Ordered(ord, EnforceableResources(bs.provider_id, bs.action_on_exceed))
         IN IF targets = <<>>
            THEN <<[provider_id |-> bs.provider_id, resource_id |-> None,
                    action |-> "alert"]>>
            ELSE [i \in 1..Len(targets) |->
                    [provider_id |-> bs.provider_id,
                     resource_id |-> targets[i],
                     action |-> IF bs.action_on_exceed = "terminate_ephemeral"
                                THEN "terminate" ELSE "scale_down"]]
    ELSE <<>>

EntriesFor(bs, ord) ==
    IF bs.status # "exceeded" THEN <<>>
    ELSE IF bs.action_on_exceed = "alert"
    THEN <<[provider_id |-> bs.provider_id, resource_id |-> None, action |-> "alert"]>>
    ELSE IF bs.action_on_exceed \in {"scale_down", "terminate_ephemeral"}
    THEN LET targets == Ordered(ord, EnforceableResources(bs.provider_id, bs.action_on_exceed))
         IN [i \in 1..Len(targets) |->
               [provider_id |-> bs.provider_id,
                resource_id |-> targets[i],
                action |-> IF bs.action_on_exceed = "terminate_ephemeral"
                           THEN "terminate" ELSE "scale_down"]]
    ELSE <<>>

\* The ActionLog rows enforce_budget adds (budget_monitor.py:121-128): one
\* pending row per entry that names a resource.
LogRowsForDone(entries) ==
    LET acted == SelectSeq(entries, LAMBDA en : en.resource_id # None)
    IN [i \in 1..Len(acted) |->
          [resource_id |-> acted[i].resource_id,
           action_type |-> acted[i].action,
           status |-> "success",
           initiated_by |-> "budget_monitor"]]

LogRowsFor(entries) ==
    LET acted == SelectSeq(entries, LAMBDA en : en.resource_id # None)
    IN [i \in 1..Len(acted) |->
          [resource_id |-> acted[i].resource_id,
           action_type |-> acted[i].action,
           status |-> "pending",
           initiated_by |-> "budget_monitor"]]

RECURSIVE AllEntries(_, _, _)
AllEntries(statuses, i, ord) ==
    IF i > Len(statuses) THEN <<>>
    ELSE EntriesFor(statuses[i], ord) \o AllEntries(statuses, i + 1, ord)

\* enforce_budget (budget_monitor.py:100-138).
EnforceBudget(provider_id, ord) ==
    /\ Len(action_log) < MaxLogLen
    /\ actions_taken' = AllEntries(CheckBudget(provider_id), 1, ord)
    /\ action_log' = action_log \o LogRowsFor(actions_taken')
    /\ UNCHANGED <<nonBudgetVars, resources, rules, spending, adapter_calls,
                   lockdown_result>>

\* budget_lockdown when registry.get_adapter raises (orchestrator.py:129-133):
\* it returns before any row is touched or logged.
LockdownNoAdapter(provider_id) ==
    /\ lockdown_result' = [steps |-> <<[resource_id |-> None, action |-> "get_adapter",
                                        status |-> "error"]>>,
                           stopped |-> 0, skipped |-> 0]
    /\ adapter_calls' = <<>>
    /\ UNCHANGED <<nonBudgetVars, resources, rules, spending, action_log,
                   actions_taken>>

\* budget_lockdown (orchestrator.py:103-173); result[r] is what
\* adapter.scale_down does for resource r: "true", "false" or "raise".
BudgetLockdown(provider_id, ord, result) ==
    LET rows == Ordered(ord, LockdownCandidates(provider_id))
        tried == Ordered(ord, LockdownTried(provider_id))
        stopped == {r \in LockdownTried(provider_id) : result[r] = "true"}
    IN /\ Len(action_log) < MaxLogLen
       /\ adapter_calls' = [i \in 1..Len(tried) |->
                              [provider_id |-> provider_id, op |-> "scale_down",
                               resource_id |-> tried[i]]]
       /\ resources' = [r \in ResourceIds |->
                          IF r \in stopped
                          THEN [resources[r] EXCEPT !.status = "stopped"]
                          ELSE resources[r]]
       /\ lockdown_result' =
             [steps |-> [i \in 1..Len(tried) |->
                           [resource_id |-> tried[i], action |-> "scale_down",
                            status |-> CASE result[tried[i]] = "true" -> "success"
                                         [] result[tried[i]] = "false" -> "failed"
                                         [] OTHER -> "error"]],
              stopped |-> Cardinality(stopped),
              skipped |-> Len(rows) - Len(tried)]
       /\ action_log' = Append(action_log,
                               [resource_id |-> None, action_type |-> "budget_lockdown",
                                status |-> "success", initiated_by |-> "budget_monitor"])
       /\ UNCHANGED <<nonBudgetVars, rules, spending, actions_taken>>

ScaleDownResults == {"true", "false", "raise"}

\* What the database holds when enforcement runs: r1 belongs to p1 and r2 to
\* p2; b1 is an active rule of any scope and action, b2 a global alert rule;
\* every provider has a record for the current period.
ResourceRows(provider_id, costs) ==
    [provider_id : {provider_id},
     status : Statuses,
     protection_level : ProtectionLevels,
     auto_terminate : BOOLEAN,
     monthly_cost_estimate : costs]

RuleRows(provider_ids, limits, actions, actives) ==
    [provider_id : provider_ids,
     monthly_limit : limits,
     alert_threshold : {80},
     action_on_exceed : actions,
     is_active : actives]

SpendingRows(a1, a2) ==
    {[provider_id |-> "p1", period |-> CurrentPeriod, amount |-> a1],
     [provider_id |-> "p2", period |-> CurrentPeriod, amount |-> a2],
     [provider_id |-> "p1", period |-> EarlierPeriod, amount |-> 12]}

BudgetInit ==
    /\ \E x1 \in ResourceRows("p1", 1..MaxCost), x2 \in ResourceRows("p2", {1}) :
          resources = [r \in ResourceIds |-> IF r = "r1" THEN x1 ELSE x2]
    /\ \E y1 \in RuleRows(Providers \cup {None}, {10}, RuleActions, {TRUE}),
          y2 \in RuleRows({None}, {15}, {"alert"}, BOOLEAN) :
          rules = [b \in RuleIds |-> IF b = "b1" THEN y1 ELSE y2]
    /\ \E a \in {<<0, 0>>, <<12, 0>>, <<12, 12>>} : spending = SpendingRows(a[1], a[2])
    /\ action_log = <<>>
    /\ actions_taken = <<>>
    /\ adapter_calls = <<>>
    /\ lockdown_result = [steps |-> <<>>, stopped |-> 0, skipped |-> 0]

\* The database when enforce_budget runs on a schedule of its own: as above,
\* and the first provider's spending may also stand at 8 of the limit of 10.
EnforceInit ==
    /\ \E x1 \in ResourceRows("p1", 1..MaxCost), x2 \in ResourceRows("p2", {1}) :
          resources = [r \in ResourceIds |-> IF r = "r1" THEN x1 ELSE x2]
    /\ \E y1 \in RuleRows(Providers \cup {None}, {10}, RuleActions, {TRUE}),
          y2 \in RuleRows({None}, {15}, {"alert"}, BOOLEAN) :
          rules = [b \in RuleIds |-> IF b = "b1" THEN y1 ELSE y2]
    /\ \E a \in {<<0, 0>>, <<8, 0>>, <<12, 0>>, <<12, 12>>} :
          spending = SpendingRows(a[1], a[2])
    /\ action_log = <<>>
    /\ actions_taken = <<>>
    /\ adapter_calls = <<>>
    /\ lockdown_result = [steps |-> <<>>, stopped |-> 0, skipped |-> 0]

\* An empty database.
BudgetIdle ==
    /\ resources = [r \in {} |-> None]
    /\ rules = [b \in {} |-> None]
    /\ spending = {}
    /\ action_log = <<>>
    /\ actions_taken = <<>>
    /\ adapter_calls = <<>>
    /\ lockdown_result = [steps |-> <<>>, stopped |-> 0, skipped |-> 0]

NextBudget ==
    \/ \E pid \in Providers \cup {None}, ord \in CostOrders : EnforceBudget(pid, ord)
    \/ \E pid \in Providers : LockdownNoAdapter(pid)
    \/ \E pid \in Providers, ord \in CostOrders :
          \E result \in [LockdownTried(pid) -> ScaleDownResults] :
              BudgetLockdown(pid, ord, result)

\* No check_budget call has returned.
NoCheck == [called |-> FALSE, provider_id |-> None, statuses |-> <<>>]

LedgerIdle == check_result = NoCheck

(***************************************************************************)
(* The spending ledger: record_spending and check_budget called by the     *)
(* spending sync and the API (budget_monitor.py:30-97).                    *)
(***************************************************************************)
\* The amounts written, against limits of 10 and 20.
Amounts == {5, 8, 10}

\* `period or current_period()` (budget_monitor.py:23, 35).
PeriodOr(period) == IF period = None THEN CurrentPeriod ELSE period

\* record_spending (budget_monitor.py:30-55), one call in one transaction.
\* `rewritten` tells whether recorded_at was reassigned by line 43.
RecordSpendingAccumulate(provider_id, amount, period) ==
    LET per == PeriodOr(period)
        matching == {row \in spending :
                        row.provider_id = provider_id /\ row.period = per}
    IN /\ IF matching # {}
          THEN \E existing \in matching :
                  spending' = (spending \ {existing}) \cup
                      {[existing EXCEPT !.amount = @ + amount, !.rewritten = TRUE]}
          ELSE spending' = spending \cup
                      {[provider_id |-> provider_id, period |-> per,
                        amount |-> amount, rewritten |-> FALSE]}
       /\ check_result' = NoCheck
       /\ UNCHANGED <<breakerVars, retryVars, trackerVars, serviceVars, resources, rules, action_log,
                      actions_taken, adapter_calls, lockdown_result>>

RecordSpending(provider_id, amount, period) ==
    LET per == PeriodOr(period)
        matching == {row \in spending :
                        row.provider_id = provider_id /\ row.period = per}
    IN /\ IF matching # {}
          THEN \E existing \in matching :
                  spending' = (spending \ {existing}) \cup
                      {[existing EXCEPT !.amount = amount, !.rewritten = TRUE]}
          ELSE spending' = spending \cup
                      {[provider_id |-> provider_id, period |-> per,
                        amount |-> amount, rewritten |-> FALSE]}
       /\ check_result' = NoCheck
       /\ UNCHANGED <<breakerVars, retryVars, trackerVars, serviceVars, resources, rules, action_log,
                      actions_taken, adapter_calls, lockdown_result>>

\* check_budget(provider_id) called on its own (budget_monitor.py:58-97).
CheckBudgetCall(provider_id) ==
    /\ check_result' = [called |-> TRUE, provider_id |-> provider_id,
                        statuses |-> CheckBudget(provider_id)]
    /\ UNCHANGED <<breakerVars, retryVars, trackerVars, serviceVars, budgetVars>>

\* BudgetRule rows with an alert action.
AlertRuleRows(provider_ids, limits, thresholds) ==
    [provider_id : provider_ids,
     monthly_limit : limits,
     alert_threshold : thresholds,
     action_on_exceed : {"alert"},
     is_active : BOOLEAN]

\* Two rules of any scope, active or not, and no spending recorded yet.
LedgerInit ==
    /\ resources = [r \in {} |-> None]
    /\ \E y1 \in AlertRuleRows(Providers \cup {None}, {10}, {50, 80}),
          y2 \in AlertRuleRows({"p1", None}, {20}, {80}) :
          rules = [b \in RuleIds |-> IF b = "b1" THEN y1 ELSE y2]
    /\ spending = {}
    /\ action_log = <<>>
    /\ actions_taken = <<>>
    /\ adapter_calls = <<>>
    /\ lockdown_result = [steps |-> <<>>, stopped |-> 0, skipped |-> 0]
    /\ check_result = NoCheck

NextLedger ==
    \/ \E pid \in Providers, amount \in Amounts : RecordSpending(pid, amount, None)
    \/ \E amount \in Amounts : RecordSpending("p1", amount, EarlierPeriod)
    \/ \E pid \in Providers \cup {None} : CheckBudgetCall(pid)

(***************************************************************************)
(* ErrorTracker (resilience.py:183-228).                                   *)
(***************************************************************************)
MaxEntries == 2
MaxRecords == 4
MaxLimit == 3

\* The `source` strings callers record under: a provider adapter's
\* (base.py:97) and another component's.
ProviderType == "oci"
ProviderSource(provider_type) == "provider." \o provider_type
Sources == {ProviderSource(ProviderType), "scheduler"}

NoReturn == [called |-> FALSE, source |-> None, limit |-> 0, entries |-> <<>>]

\* seq[-n:] (resilience.py:208).
KeepLast(seq, n) ==
    IF n = 0 THEN seq
    ELSE IF Len(seq) > n THEN SubSeq(seq, Len(seq) - n + 1, Len(seq))
    ELSE seq

\* seq[:limit] (resilience.py:220); a negative limit drops from the end.
SliceTo(seq, limit) ==
    IF limit >= 0
    THEN (IF Len(seq) > limit THEN SubSeq(seq, 1, limit) ELSE seq)
    ELSE (IF Len(seq) + limit > 0 THEN SubSeq(seq, 1, Len(seq) + limit) ELSE <<>>)

\* reversed(seq) (resilience.py:217).
Reverse(seq) == [i \in 1..Len(seq) |-> seq[Len(seq) - i + 1]]

\* The body of record under the lock (resilience.py:205-208).
AfterRecordKeepOldest(entries, entry, max) ==
    LET appended == Append(entries, entry)
    IN IF Len(appended) > max THEN SubSeq(appended, 1, max) ELSE appended

AfterRecord(entries, entry, max) ==
    LET appended == Append(entries, entry)
    IN IF Len(appended) > max THEN KeepLast(appended, max) ELSE appended

\* get_errors (resilience.py:210-220); `if source` skips None.
GetErrors(entries, source, limit) ==
    LET newest == Reverse(entries)
        matching == IF source # None
                    THEN SelectSeq(newest, LAMBDA en : en.source = source)
                    ELSE newest
    IN SliceTo(matching, limit)

\* The `count` property (resilience.py:226-228).
Count == Len(et_entries)

\* __init__ (resilience.py:186-189), the capacity drawn from the bounds.
TrackerFresh ==
    /\ et_entries = <<>>
    /\ et_seq = 0
    /\ et_recorded = <<>>
    /\ et_returned = NoReturn

TrackerInit ==
    /\ et_max \in 1..MaxEntries
    /\ TrackerFresh

\* The module's tracker with the default capacity (resilience.py:186, 232).
TrackerIdle ==
    /\ et_max = 500
    /\ TrackerFresh

\* record(source, error) (resilience.py:191-208).
TrackerRecord(source, e) ==
    LET entry == [serial |-> et_seq + 1, source |-> source, error_type |-> e]
    IN /\ et_seq < MaxRecords
       /\ et_seq' = et_seq + 1
       /\ et_entries' = AfterRecord(et_entries, entry, et_max)
       /\ et_recorded' = Append(et_recorded, entry)
       /\ et_returned' = NoReturn
       /\ UNCHANGED <<nonTrackerVars, et_max>>

\* get_errors(source, limit) (resilience.py:210-220).
TrackerGetErrors(source, limit) ==
    /\ et_returned' = [called |-> TRUE, source |-> source, limit |-> limit,
                       entries |-> GetErrors(et_entries, source, limit)]
    /\ UNCHANGED <<nonTrackerVars, et_max, et_entries, et_seq, et_recorded>>

\* clear() (resilience.py:222-224).
TrackerClear ==
    /\ et_entries' = <<>>
    /\ et_recorded' = <<>>
    /\ et_returned' = NoReturn
    /\ UNCHANGED <<nonTrackerVars, et_max, et_seq>>

NextTracker ==
    \/ \E source \in Sources, e \in Errors : TrackerRecord(source, e)
    \/ \E source \in Sources \cup {None}, limit \in (-1)..MaxLimit :
          TrackerGetErrors(source, limit)
    \/ TrackerClear

(***************************************************************************)
(* ProviderAdapter._resilient_call (base.py:80-101): retry(max_attempts=3,  *)
(* base_delay=1.0, retryable_exceptions=(Exception,)) around               *)
(* CircuitBreaker.call, then the handlers of lines 93-101.  One thread     *)
(* makes resilient calls one after another; each attempt is a frame of     *)
(* CircuitBreaker.call of that thread.                                     *)
(***************************************************************************)
ResThread == "t1"

\* Everything `except Exception` matches: func's failures and the breaker's
\* rejection (CircuitBreakerError is a subclass of Exception, resilience.py:84).
Exceptions == Errors \cup {CircuitBreakerError[2]}

\* The decorator's arguments at base.py:87, the rest being retry's defaults.
ResilientRetryConfig ==
    [max_attempts |-> 3, base_delay |-> 1, max_delay |-> 30,
     backoff_factor |-> 2, jitter |-> TRUE, retryable |-> Exceptions]

\* No resilient call is running.
ResilientIdle ==
    /\ rcfg = ResilientRetryConfig
    /\ r_pc = "idle"
    /\ attempt = 1
    /\ delay = rcfg.base_delay
    /\ last_exception = "None"
    /\ r_result = NoOutcome
    /\ calls = <<>>
    /\ sleeps = <<>>

\* Which escaping failures reach error_tracker.record: `except
\* CircuitBreakerError: raise` comes first (base.py:93-101).
IsRecordedNever(e) == FALSE

IsRecorded(e) == e # CircuitBreakerError[2]

\* The frame of CircuitBreaker.call has returned to _inner.
FrameReset(t) ==
    /\ pc' = [pc EXCEPT ![t] = "idle"]
    /\ seen' = [seen EXCEPT ![t] = CLOSED]
    /\ invoked' = [invoked EXCEPT ![t] = 0]
    /\ succ_rec' = [succ_rec EXCEPT ![t] = 0]
    /\ fail_rec' = [fail_rec EXCEPT ![t] = 0]
    /\ fn_outcome' = [fn_outcome EXCEPT ![t] = NoOutcome]
    /\ outcome' = [outcome EXCEPT ![t] = NoOutcome]

breakerFields == <<paramVars, cb_state, failure_count, last_failure_time, now,
                   observerVars, consec, last_probe>>

\* _resilient_call is entered (base.py:87-92, resilience.py:42-43).
ResilientCallStart ==
    /\ r_pc \in {"idle", "returned", "raised"}
    /\ et_seq < MaxRecords
    /\ r_pc' = "calling"
    /\ attempt' = 1
    /\ delay' = rcfg.base_delay
    /\ last_exception' = "None"
    /\ r_result' = NoOutcome
    /\ calls' = <<>>
    /\ sleeps' = <<>>
    /\ UNCHANGED <<breakerVars, budgetVars, ledgerVars, serviceVars, trackerVars, rcfg>>

\* An attempt: _inner calls CircuitBreaker.call (base.py:89).
InnerCallReject == r_pc = "calling" /\ CallReject(ResThread)

InnerCallInvoke == r_pc = "calling" /\ CallInvoke(ResThread)

\* resilience.py:47 and base.py:92: the attempt returned, so does the call.
InnerReturns ==
    /\ r_pc = "calling"
    /\ pc[ResThread] = "done"
    /\ outcome[ResThread][1] = "return"
    /\ calls' = Append(calls, outcome[ResThread])
    /\ r_result' = outcome[ResThread]
    /\ r_pc' = "returned"
    /\ FrameReset(ResThread)
    /\ UNCHANGED <<breakerFields, budgetVars, ledgerVars, serviceVars, trackerVars, rcfg, attempt,
                   delay, last_exception, sleeps>>

\* resilience.py:48-65: the attempt raised and it was not the last one.
InnerFailsRetry(j) ==
    /\ r_pc = "calling"
    /\ pc[ResThread] \in {"done", "rejected"}
    /\ outcome[ResThread][1] = "raise"
    /\ IsRetryable(outcome[ResThread][2], rcfg.retryable)
    /\ ~IsLastAttempt(attempt, rcfg.max_attempts)
    /\ rcfg.jitter \/ j = 100
    /\ calls' = Append(calls, outcome[ResThread])
    /\ last_exception' = outcome[ResThread][2]
    /\ sleeps' = Append(sleeps, <<delay, j>>)
    /\ r_pc' = "sleeping"
    /\ FrameReset(ResThread)
    /\ UNCHANGED <<breakerFields, budgetVars, ledgerVars, serviceVars, trackerVars, rcfg, attempt,
                   delay, r_result>>

\* resilience.py:48-55 and base.py:93-101: the last attempt raised; the
\* failure leaves _inner and _resilient_call, recorded or not.
InnerFailsLast ==
    LET e == outcome[ResThread][2]
        entry == [serial |-> et_seq + 1, source |-> ProviderSource(ProviderType),
                  error_type |-> e]
    IN /\ r_pc = "calling"
       /\ pc[ResThread] \in {"done", "rejected"}
       /\ outcome[ResThread][1] = "raise"
       /\ IsRetryable(e, rcfg.retryable)
       /\ IsLastAttempt(attempt, rcfg.max_attempts)
       /\ calls' = Append(calls, outcome[ResThread])
       /\ last_exception' = e
       /\ r_result' = outcome[ResThread]
       /\ r_pc' = "raised"
       /\ FrameReset(ResThread)
       /\ IF IsRecorded(e)
          THEN /\ et_seq' = et_seq + 1
               /\ et_entries' = AfterRecord(et_entries, entry, et_max)
               /\ et_recorded' = Append(et_recorded, entry)
               /\ et_returned' = NoReturn
               /\ UNCHANGED et_max
          ELSE UNCHANGED trackerVars
       /\ UNCHANGED <<breakerFields, budgetVars, ledgerVars, serviceVars, rcfg, attempt, delay, sleeps>>

NextResilient ==
    \/ Tick
    \/ ResilientCallStart
    \/ InnerCallReject
    \/ InnerCallInvoke
    \/ \E v \in Values : FnReturn(ResThread, v)
    \/ \E e \in Errors : FnRaise(ResThread, e)
    \/ InnerReturns
    \/ \E j \in JitterPercents : InnerFailsRetry(j)
    \/ InnerFailsLast
    \/ SleepEnds

(***************************************************************************)
(* ProviderRegistry (services/registry.py:13-58): the adapter cache.  The  *)
(* registry is one module-level object (registry.py:106) shared by the     *)
(* request handlers, which run on worker threads, and by the scheduler     *)
(* loops.  No method takes a lock, so get_adapter is modelled statement by *)
(* statement: the cache lookup, the database read with the class lookup    *)
(* and cls(), authenticate, and the cache store.                           *)
(***************************************************************************)
MaxInstances == 3

ProviderTypes == {"oci", "aws"}

\* The classes _register_adapters registers (app.py:72-105).
AdapterClassOf == [oci |-> "OCIProviderAdapter", aws |-> "AWSAdapter"]

KeyError == <<"raise", "KeyError">>
AuthError == <<"raise", "AuthError">>

NoFrame == [pc |-> "idle", provider_id |-> None, config |-> None, adapter |-> 0,
            result |-> NoOutcome]

\* Python's truth value of a provider_id argument (registry.py:55).
Truthy(x) == x \notin {None, ""}

\* dict.pop(key, None) and dict.clear().
Pop(d, key) == [k \in DOMAIN d \ {key} |-> d[k]]
Cleared(d) == [k \in {} |-> d[k]]

\* d[key] = value
Store(d, key, value) == [k \in DOMAIN d \cup {key} |-> IF k = key THEN value ELSE d[k]]

\* registry.py:53-58: the cache clear_cache leaves behind.
AfterClear(cache, provider_id) ==
    IF Truthy(provider_id) THEN Pop(cache, provider_id) ELSE Cleared(cache)

\* The providers a clear_cache call evicts.
Evicted(cache, provider_id) == DOMAIN cache \ DOMAIN AfterClear(cache, provider_id)

RegistryFresh ==
    /\ adapter_classes = [pt \in {} |-> ""]
    /\ instances = [p \in {} |-> 0]
    /\ next_instance = 0
    /\ ga = [t \in Threads |-> NoFrame]
    /\ authed = [p \in Providers |-> {}]
    /\ handed = [p \in Providers |-> {}]

RegistryInit ==
    /\ RegistryFresh
    /\ configs \in [Providers -> ProviderTypes \cup {None}]

RegistryIdle ==
    /\ RegistryFresh
    /\ configs = [p \in Providers |-> None]

\* registry.py:22-24
RegisterAdapter(provider_type) ==
    /\ provider_type \notin DOMAIN adapter_classes
    /\ adapter_classes' = Store(adapter_classes, provider_type,
                                AdapterClassOf[provider_type])
    /\ UNCHANGED <<instances, configs, next_instance, ga, authed, handed>>
    /\ UNCHANGED nonRegistryVars

\* registry.py:34-35: the provider is cached.
GetAdapterHit(t, provider_id) ==
    /\ ga[t].pc = "idle"
    /\ provider_id \in DOMAIN instances
    /\ ga' = [ga EXCEPT ![t] = [NoFrame EXCEPT !.provider_id = provider_id,
                                               !.result = <<"return", instances[provider_id]>>]]
    /\ handed' = [handed EXCEPT ![provider_id] = @ \cup {instances[provider_id]}]
    /\ UNCHANGED <<adapter_classes, instances, configs, next_instance, authed>>
    /\ UNCHANGED nonRegistryVars

\* registry.py:34: the provider is not cached; the call goes on to line 37.
GetAdapterMiss(t, provider_id) ==
    /\ ga[t].pc = "idle"
    /\ provider_id \notin DOMAIN instances
    /\ ga' = [ga EXCEPT ![t] = [NoFrame EXCEPT !.pc = "loading",
                                               !.provider_id = provider_id]]
    /\ UNCHANGED <<adapter_classes, instances, configs, next_instance, authed, handed>>
    /\ UNCHANGED nonRegistryVars

\* registry.py:37-48: db.get, the class lookup and cls().
LoadConfig(t) ==
    LET config == configs[ga[t].provider_id]
    IN /\ ga[t].pc = "loading"
       /\ IF config = None \/ config \notin DOMAIN adapter_classes
          THEN /\ ga' = [ga EXCEPT ![t].pc = "idle", ![t].config = config,
                                   ![t].result = KeyError]
               /\ UNCHANGED next_instance
          ELSE /\ next_instance < MaxInstances
               /\ next_instance' = next_instance + 1
               /\ ga' = [ga EXCEPT ![t].pc = "authenticating", ![t].config = config,
                                   ![t].adapter = next_instance + 1]
       /\ UNCHANGED <<adapter_classes, instances, configs, authed, handed>>
       /\ UNCHANGED nonRegistryVars

\* registry.py:49: authenticate returns, or raises out of get_adapter.
AuthenticateCaches(t, ok) ==
    /\ ga[t].pc = "authenticating"
    /\ IF ok
       THEN /\ ga' = [ga EXCEPT ![t].pc = "storing"]
            /\ authed' = [authed EXCEPT ![ga[t].provider_id] = @ \cup {ga[t].adapter}]
            /\ UNCHANGED instances
       ELSE /\ ga' = [ga EXCEPT ![t].pc = "idle", ![t].result = AuthError]
            /\ instances' = Store(instances, ga[t].provider_id, ga[t].adapter)
            /\ UNCHANGED authed
    /\ UNCHANGED <<adapter_classes, configs, next_instance, handed>>
    /\ UNCHANGED nonRegistryVars

Authenticate(t, ok) ==
    /\ ga[t].pc = "authenticating"
    /\ IF ok
       THEN /\ ga' = [ga EXCEPT ![t].pc = "storing"]
            /\ authed' = [authed EXCEPT ![ga[t].provider_id] = @ \cup {ga[t].adapter}]
       ELSE /\ ga' = [ga EXCEPT ![t].pc = "idle", ![t].result = AuthError]
            /\ UNCHANGED authed
    /\ UNCHANGED <<adapter_classes, instances, configs, next_instance, handed>>
    /\ UNCHANGED nonRegistryVars

\* registry.py:50-51
StoreInstance(t) ==
    /\ ga[t].pc = "storing"
    /\ instances' = Store(instances, ga[t].provider_id, ga[t].adapter)
    /\ ga' = [ga EXCEPT ![t].pc = "idle", ![t].result = <<"return", ga[t].adapter>>]
    /\ handed' = [handed EXCEPT ![ga[t].provider_id] = @ \cup {ga[t].adapter}]
    /\ UNCHANGED <<adapter_classes, configs, next_instance, authed>>
    /\ UNCHANGED nonRegistryVars

\* registry.py:53-58
ClearCache(provider_id) ==
    /\ instances' = AfterClear(instances, provider_id)
    /\ authed' = [p \in Providers |->
                    IF p \in Evicted(instances, provider_id) THEN {} ELSE authed[p]]
    /\ handed' = [p \in Providers |->
                    IF p \in Evicted(instances, provider_id) THEN {} ELSE handed[p]]
    /\ UNCHANGED <<adapter_classes, configs, next_instance, ga>>
    /\ UNCHANGED nonRegistryVars

NextRegistry ==
    \/ \E pt \in ProviderTypes : RegisterAdapter(pt)
    \/ \E t \in Threads, p \in Providers : GetAdapterHit(t, p)
    \/ \E t \in Threads, p \in Providers : GetAdapterMiss(t, p)
    \/ \E t \in Threads : LoadConfig(t)
    \/ \E t \in Threads, ok \in BOOLEAN : Authenticate(t, ok)
    \/ \E t \in Threads : StoreInstance(t)
    \/ \E p \in Providers \cup {None} : ClearCache(p)

(***************************************************************************)
(* The periodic loops: spending_sync_loop (spending_sync.py:79-90),        *)
(* budget_enforcement_loop (scheduler.py:23-57) and health_check_loop      *)
(* (scheduler.py:60-95).  Each runs as one asyncio task; a step of the     *)
(* model is what the coroutine does between two awaits.  The spending and  *)
(* the health cycle contain no await (sync_spending_once has none), so     *)
(* they run from the end of one sleep to the start of the next; the budget *)
(* cycle awaits _send_budget_alert once per warning.                       *)
(***************************************************************************)
MaxAlerts == 2

SpendingSync == "spending_sync_loop"
BudgetEnforcement == "budget_enforcement_loop"
HealthCheck == "health_check_loop"
Loops == {SpendingSync, BudgetEnforcement, HealthCheck}

\* Where a loop stands after a cycle that raised (raised = TRUE) or not: the
\* handlers of spending_sync.py:88-89 and scheduler.py:55-56, 93-94 log and
\* fall through to the sleep.
AfterCycleStops(raised) == IF raised THEN "exited" ELSE "sleeping"

AfterCycle(raised) == "sleeping"

CycleResult(raised) == IF raised THEN "error" ELSE "ok"

LoopsFresh ==
    /\ cancel_requested = [l \in Loops |-> FALSE]
    /\ last_cycle = [l \in Loops |-> "none"]
    /\ alerts_left = 0
    /\ must_enforce = FALSE
    /\ enforced = FALSE

\* Every loop has been handed to asyncio.create_task.
LoopsInit ==
    /\ LoopsFresh
    /\ task = [l \in Loops |-> "ready"]

LoopsIdle ==
    /\ LoopsFresh
    /\ task = [l \in Loops |-> "none"]

\* asyncio.sleep(interval) elapses (spending_sync.py:90, scheduler.py:57, 95).
TimerFires(l) ==
    /\ task[l] = "sleeping"
    /\ ~cancel_requested[l]
    /\ task' = [task EXCEPT ![l] = "ready"]
    /\ UNCHANGED <<cancel_requested, last_cycle, alerts_left, must_enforce, enforced>>
    /\ UNCHANGED nonLoopVars

\* spending_sync.py:83-90: one cycle; raised says whether sync_spending_once
\* raised (init_db, SessionLocal, the provider query or get_adapter).
SpendingSyncCycle(raised) ==
    /\ task[SpendingSync] = "ready"
    /\ ~cancel_requested[SpendingSync]
    /\ task' = [task EXCEPT ![SpendingSync] = AfterCycle(raised)]
    /\ last_cycle' = [last_cycle EXCEPT ![SpendingSync] = CycleResult(raised)]
    /\ UNCHANGED <<cancel_requested, alerts_left, must_enforce, enforced>>
    /\ UNCHANGED nonLoopVars

\* scheduler.py:64-95: one cycle; raised says whether init_db, SessionLocal,
\* the resource query or get_adapter raised.
HealthCheckCycle(raised) ==
    /\ task[HealthCheck] = "ready"
    /\ ~cancel_requested[HealthCheck]
    /\ task' = [task EXCEPT ![HealthCheck] = AfterCycle(raised)]
    /\ last_cycle' = [last_cycle EXCEPT ![HealthCheck] = CycleResult(raised)]
    /\ UNCHANGED <<cancel_requested, alerts_left, must_enforce, enforced>>
    /\ UNCHANGED nonLoopVars

\* scheduler.py:27-43: the cycle up to its first await.  raised: init_db,
\* SessionLocal or check_budget raised; warnings: len(warnings); exceeded:
\* whether a status is exceeded (such a status is in `warnings` too).
BudgetCycleBegin(raised, warnings, exceeded) ==
    /\ task[BudgetEnforcement] = "ready"
    /\ ~cancel_requested[BudgetEnforcement]
    /\ exceeded => warnings > 0
    /\ enforced' = FALSE
    /\ IF raised \/ warnings = 0
       THEN /\ task' = [task EXCEPT ![BudgetEnforcement] = AfterCycle(raised)]
            /\ last_cycle' = [last_cycle EXCEPT ![BudgetEnforcement] = CycleResult(raised)]
            /\ alerts_left' = 0
            /\ must_enforce' = FALSE
       ELSE /\ task' = [task EXCEPT ![BudgetEnforcement] = "alerting"]
            /\ alerts_left' = warnings
            /\ must_enforce' = exceeded
            /\ UNCHANGED last_cycle
    /\ UNCHANGED cancel_requested
    /\ UNCHANGED nonLoopVars

\* scheduler.py:43-57: _send_budget_alert returns or raises an Exception
\* (caught at line 44); after the last one the cycle runs enforce_budget when
\* a status is exceeded and reaches the sleep.  raised says whether
\* enforce_budget raised.
AlertReturns(raised) ==
    /\ task[BudgetEnforcement] = "alerting"
    /\ ~cancel_requested[BudgetEnforcement]
    /\ alerts_left' = alerts_left - 1
    /\ IF alerts_left > 1
       THEN UNCHANGED <<task, last_cycle, enforced>>
       ELSE /\ enforced' = must_enforce
            /\ task' = [task EXCEPT ![BudgetEnforcement] = AfterCycle(must_enforce /\ raised)]
            /\ last_cycle' = [last_cycle EXCEPT ![BudgetEnforcement] =
                                CycleResult(must_enforce /\ raised)]
    /\ UNCHANGED <<cancel_requested, must_enforce>>
    /\ UNCHANGED nonLoopVars

\* task.cancel() (app.py:24 for the spending sync task).
Cancel(l) ==
    /\ task[l] \notin {"none", "exited"}
    /\ ~cancel_requested[l]
    /\ cancel_requested' = [cancel_requested EXCEPT ![l] = TRUE]
    /\ UNCHANGED <<task, last_cycle, alerts_left, must_enforce, enforced>>
    /\ UNCHANGED nonLoopVars

\* The event loop raises CancelledError in the coroutine at the await where
\* it is suspended.  CancelledError is a BaseException: neither the alert
\* handler (scheduler.py:44) nor the handlers of the cycle (spending_sync.py:88,
\* scheduler.py:55, 93) catch it, so it leaves the loop.
DeliverCancel(l) ==
    /\ cancel_requested[l]
    /\ task[l] \notin {"none", "exited"}
    /\ task' = [task EXCEPT ![l] = "exited"]
    /\ cancel_requested' = [cancel_requested EXCEPT ![l] = FALSE]
    /\ UNCHANGED <<last_cycle, alerts_left, must_enforce, enforced>>
    /\ UNCHANGED nonLoopVars

NextLoops ==
    \/ \E l \in Loops : TimerFires(l)
    \/ \E raised \in BOOLEAN : SpendingSyncCycle(raised)
    \/ \E raised \in BOOLEAN : HealthCheckCycle(raised)
    \/ \E raised, exceeded \in BOOLEAN, warnings \in 0..MaxAlerts :
          BudgetCycleBegin(raised, warnings, exceeded)
    \/ \E raised \in BOOLEAN : AlertReturns(raised)
    \/ \E l \in Loops : Cancel(l)
    \/ \E l \in Loops : DeliverCancel(l)

\* The event loop runs every task that can run: a timer that is due fires,
\* a cycle that can run runs to its next await, a requested cancellation is
\* raised.  The calls a cycle makes are taken to return or raise.
LoopsFairness ==
    /\ \A l \in Loops : WF_vars(TimerFires(l)) /\ WF_vars(DeliverCancel(l))
    /\ WF_vars(\E raised \in BOOLEAN : SpendingSyncCycle(raised))
    /\ WF_vars(\E raised \in BOOLEAN : HealthCheckCycle(raised))
    /\ WF_vars(\E raised, exceeded \in BOOLEAN, warnings \in 0..MaxAlerts :
                  BudgetCycleBegin(raised, warnings, exceeded))
    /\ WF_vars(\E raised \in BOOLEAN : AlertReturns(raised))

(***************************************************************************)
(* The application: lifespan (app.py:15-24) and the resource action        *)
(* endpoint perform_action (api/resources.py:92-152).  A request is        *)
(* modelled as one step, get_adapter included, with requests served one at *)
(* a time.                                                                 *)
(***************************************************************************)
MaxRequests == 2

\* The loops lifespan creates a task for (app.py:21-22) and the tasks it
\* cancels after the yield (app.py:24).
StartedLoops == {SpendingSync}
CancelledAtShutdown == {SpendingSync}

\* ActionRequest.action (api/schemas.py:95-96): the four actions the handler
\* knows and one it does not.
Actions == {"stop", "start", "terminate", "health_check", "restart"}

\* What the adapter operation of a request does: succeed, report failure
\* (False, or an error status from health_check), or raise.
OpOutcomes == {"ok", "no", "raise"}

\* registry.py:32-51 run to completion by one caller: what get_adapter
\* returns or raises, the cache it leaves, how many objects it created and
\* whether it invoked authenticate.
GetAdapterIn(cache, last, provider_id, auth_ok) ==
    IF provider_id \in DOMAIN cache
    THEN [result |-> <<"return", cache[provider_id]>>, cache |-> cache,
          created |-> 0, authenticate |-> FALSE]
    ELSE IF ~(configs[provider_id] # None /\ configs[provider_id] \in DOMAIN adapter_classes)
    THEN [result |-> KeyError, cache |-> cache, created |-> 0, authenticate |-> FALSE]
    ELSE IF auth_ok
    THEN [result |-> <<"return", last + 1>>,
          cache |-> Store(cache, provider_id, last + 1),
          created |-> 1, authenticate |-> TRUE]
    ELSE [result |-> AuthError, cache |-> cache, created |-> 1, authenticate |-> TRUE]

\* The same on the registry as it stands.
GetAdapterCall(provider_id, auth_ok) ==
    GetAdapterIn(instances, next_instance, provider_id, auth_ok)

\* api/resources.py:112-137: the adapter operation an action invokes once the
\* adapter is obtained; the critical check of line 120 comes before terminate.
Operation(action, protection_level) ==
    CASE action = "stop" -> <<"scale_down">>
      [] action = "terminate" /\ protection_level # "critical" -> <<"terminate">>
      [] action = "health_check" -> <<"health_check">>
      [] OTHER -> <<>>

\* api/resources.py:109-148: the status the ActionLog row ends with.
LogStatus(action, protection_level, adapter_ok, op_outcome) ==
    CASE ~adapter_ok -> "failed"
      [] action = "terminate" /\ protection_level = "critical" -> "failed"
      [] action \notin {"stop", "start", "terminate", "health_check"} -> "running"
      [] Operation(action, protection_level) # <<>> /\ op_outcome = "raise" -> "failed"
      [] OTHER -> "success"

\* api/resources.py:97, 124-127, 137, 152: the HTTP status of the response.
ResponseCode(action, protection_level, adapter_ok) ==
    CASE ~adapter_ok -> 200
      [] action = "terminate" /\ protection_level = "critical" -> 403
      [] action \notin {"stop", "start", "terminate", "health_check"} -> 400
      [] OTHER -> 200

\* api/resources.py:114, 129-130, 133: resource.status after the request.
StatusAfter(resource, action, ops, op_outcome) ==
    CASE ops = <<"scale_down">> /\ op_outcome = "ok" -> "stopped"
      [] ops = <<"terminate">> /\ op_outcome = "ok" -> "terminated"
      [] ops = <<"health_check">> /\ op_outcome = "ok" -> "running"
      [] ops = <<"health_check">> /\ op_outcome = "no" -> "error"
      [] OTHER -> resource.status

AppFresh ==
    /\ app = "created"
    /\ op_calls = <<>>
    /\ response = 0

\* api/resources.py:92-152
PerformAction(resource_id, action, auth_ok, op_outcome) ==
    /\ app = "running"
    /\ Len(action_log) < MaxRequests
    /\ IF resource_id \notin DOMAIN resources
       THEN /\ response' = 404
            /\ op_calls' = <<>>
            /\ UNCHANGED <<resources, action_log, instances, next_instance, authed, handed>>
       ELSE LET resource == resources[resource_id]
                got == GetAdapterCall(resource.provider_id, auth_ok)
                adapter_ok == got.result[1] = "return"
                ops == IF adapter_ok
                       THEN Operation(action, resource.protection_level)
                       ELSE <<>>
            IN /\ next_instance + got.created <= MaxInstances
               /\ instances' = got.cache
               /\ next_instance' = next_instance + got.created
               /\ authed' = IF got.authenticate /\ adapter_ok
                            THEN [authed EXCEPT ![resource.provider_id] = @ \cup {got.result[2]}]
                            ELSE authed
               /\ handed' = IF adapter_ok
                            THEN [handed EXCEPT ![resource.provider_id] = @ \cup {got.result[2]}]
                            ELSE handed
               /\ op_calls' = (IF got.authenticate THEN <<"authenticate">> ELSE <<>>) \o ops
               /\ resources' = [resources EXCEPT ![resource_id].status =
                                   StatusAfter(resource, action, ops, op_outcome)]
               /\ action_log' = Append(action_log,
                                   [resource_id |-> resource_id,
                                    action_type |-> action,
                                    status |-> LogStatus(action, resource.protection_level,
                                                         adapter_ok, op_outcome),
                                    initiated_by |-> "user"])
               /\ response' = ResponseCode(action, resource.protection_level, adapter_ok)
    /\ UNCHANGED <<app, adapter_classes, configs, ga>>
    /\ UNCHANGED <<rules, spending, actions_taken, adapter_calls, lockdown_result>>
    /\ UNCHANGED <<breakerVars, retryVars, ledgerVars, trackerVars, loopVars, lockVars,
                   supportVars>>

\* app.py:18-22: init_db, _register_adapters (a provider package that fails
\* to import is skipped, app.py:72-105) and the task of the spending sync.
LifespanStartup(registered) ==
    /\ app = "created"
    /\ app' = "running"
    /\ adapter_classes' = [pt \in registered |-> AdapterClassOf[pt]]
    /\ task' = [l \in Loops |-> IF l \in StartedLoops THEN "ready" ELSE "none"]
    /\ UNCHANGED <<op_calls, response>>
    /\ UNCHANGED <<instances, configs, next_instance, ga, authed, handed>>
    /\ UNCHANGED <<cancel_requested, last_cycle, alerts_left, must_enforce, enforced>>
    /\ UNCHANGED <<breakerVars, retryVars, budgetVars, ledgerVars, trackerVars, lockVars,
                   supportVars>>

\* app.py:23-24: after the yield.
LifespanShutdown ==
    /\ app = "running"
    /\ app' = "stopped"
    /\ cancel_requested' = [l \in Loops |->
                              \/ cancel_requested[l]
                              \/ l \in CancelledAtShutdown /\ task[l] # "exited"]
    /\ UNCHANGED <<op_calls, response>>
    /\ UNCHANGED <<task, last_cycle, alerts_left, must_enforce, enforced>>
    /\ UNCHANGED <<breakerVars, retryVars, budgetVars, ledgerVars, trackerVars, registryVars,
                   lockVars, supportVars>>

\* The CloudResource rows the action endpoint works on.
AppResourceRows(provider_id) ==
    [provider_id : {provider_id},
     status : {"running"},
     protection_level : ProtectionLevels,
     auto_terminate : {FALSE},
     monthly_cost_estimate : {0}]

AppInit ==
    /\ AppFresh
    /\ RegistryFresh
    /\ configs \in [Providers -> {"oci", None}]
    /\ LoopsIdle
    /\ \E row1 \in AppResourceRows("p1"), row2 \in AppResourceRows("p2") :
          /\ row2.protection_level = "standard"
          /\ resources = [r \in ResourceIds |-> IF r = "r1" THEN row1 ELSE row2]
    /\ rules = [b \in {} |-> None]
    /\ spending = {}
    /\ action_log = <<>>
    /\ actions_taken = <<>>
    /\ adapter_calls = <<>>
    /\ lockdown_result = [steps |-> <<>>, stopped |-> 0, skipped |-> 0]

NextApp ==
    \/ \E registered \in SUBSET ProviderTypes : LifespanStartup(registered)
    \/ LifespanShutdown
    \/ \E rid \in ResourceIds \cup {"r9"}, action \in Actions, auth_ok \in BOOLEAN,
          op_outcome \in OpOutcomes : PerformAction(rid, action, auth_ok, op_outcome)
    \/ \E l \in Loops : TimerFires(l)
    \/ \E raised \in BOOLEAN : SpendingSyncCycle(raised)
    \/ \E l \in Loops : DeliverCancel(l)

(***************************************************************************)
(* ErrorTracker under concurrent callers (resilience.py:191-228).  record, *)
(* get_errors and clear run inside `with self._lock`; the count property   *)
(* reads len(self._entries) without the lock.  record's block has two      *)
(* statements, the append (line 206) and the trim (lines 207-208), and a   *)
(* thread switch can fall between them.                                    *)
(***************************************************************************)
NoCount == [read |-> FALSE, value |-> 0]

LockFree ==
    /\ et_lock = None
    /\ et_count = NoCount

\* resilience.py:205-206: take the lock and append.
RecordAppend(t, source, e) ==
    LET entry == [serial |-> et_seq + 1, source |-> source, error_type |-> e]
    IN /\ et_lock = None
       /\ et_seq < MaxRecords
       /\ et_lock' = t
       /\ et_seq' = et_seq + 1
       /\ et_entries' = Append(et_entries, entry)
       /\ et_recorded' = Append(et_recorded, entry)
       /\ et_returned' = NoReturn
       /\ UNCHANGED <<et_max, et_count>>
       /\ UNCHANGED nonTrackerLockVars

\* resilience.py:207-208: trim to the newest _max entries and release.
RecordTrim(t) ==
    /\ et_lock = t
    /\ et_entries' = IF Len(et_entries) > et_max
                     THEN KeepLast(et_entries, et_max)
                     ELSE et_entries
    /\ et_lock' = None
    /\ UNCHANGED <<et_max, et_seq, et_recorded, et_returned, et_count>>
    /\ UNCHANGED nonTrackerLockVars

\* resilience.py:216-220: the copy is taken under the lock.
LockedGetErrors(source, limit) ==
    /\ et_lock = None
    /\ et_returned' = [called |-> TRUE, source |-> source, limit |-> limit,
                       entries |-> GetErrors(et_entries, source, limit)]
    /\ UNCHANGED <<et_max, et_entries, et_seq, et_recorded, et_lock, et_count>>
    /\ UNCHANGED nonTrackerLockVars

\* resilience.py:222-224
LockedClear ==
    /\ et_lock = None
    /\ et_entries' = <<>>
    /\ et_recorded' = <<>>
    /\ et_returned' = NoReturn
    /\ UNCHANGED <<et_max, et_seq, et_lock, et_count>>
    /\ UNCHANGED nonTrackerLockVars

\* resilience.py:226-228: no lock is taken.
CountRead ==
    /\ et_count' = [read |-> TRUE, value |-> Len(et_entries)]
    /\ UNCHANGED <<trackerVars, et_lock>>
    /\ UNCHANGED nonTrackerLockVars

NextTrackerThreads ==
    \/ \E t \in Threads, source \in Sources, e \in Errors : RecordAppend(t, source, e)
    \/ \E t \in Threads : RecordTrim(t)
    \/ \E source \in Sources \cup {None}, limit \in (-1)..MaxLimit :
          LockedGetErrors(source, limit)
    \/ LockedClear
    \/ CountRead

\* No adapter object exists, no sync has run and no record_spending call is
\* in progress.
NoSync == [called |-> FALSE, outcome |-> "none", providers |-> <<>>]

NoSession == [pc |-> "idle", provider_id |-> None, period |-> None, amount |-> 0,
              existing |-> None]

Sessions == {"s1", "s2"}

SupportIdle ==
    /\ circuit_breakers = [i \in {} |-> None]
    /\ sync_result = NoSync
    /\ rs = [c \in Sessions |-> NoSession]

ServicesIdle == RegistryIdle /\ LoopsIdle /\ AppFresh /\ LockFree /\ SupportIdle

(***************************************************************************)
(* The breaker of an adapter (providers/base.py:21-32, 80-101).  Each      *)
(* adapter object creates its own CircuitBreaker on first use; the         *)
(* registry holds the adapter objects, not the breakers.  get_adapter is   *)
(* run to completion by one caller at a time, and no time passes, so an    *)
(* OPEN breaker stays OPEN.                                                *)
(***************************************************************************)
\* The arguments of base.py:27-31 and the attempts of base.py:87.
AdapterBreaker == [failure_threshold |-> 5, reset_timeout |-> 60, max_attempts |-> 3]

\* base.py:25-32: the breaker a call on object i works with, created CLOSED
\* with no failures when the object has none yet.
GetCircuitBreaker(i, provider_id) ==
    IF i \in DOMAIN circuit_breakers THEN circuit_breakers[i]
    ELSE [provider_id |-> provider_id, state |-> CLOSED, failure_count |-> 0]

\* base.py:87-92: the breaker after n attempts of _inner; an attempt that
\* finds it OPEN is rejected and retried (resilience.py:48, 152), a failing
\* func is recorded, a returning func ends the call.
RECURSIVE AfterAttempts(_, _, _)
AfterAttempts(b, fails, n) ==
    IF n = 0 \/ b.state = OPEN THEN b
    ELSE IF ~fails
    THEN [b EXCEPT !.state = StateAfterSuccess(b.state), !.failure_count = 0]
    ELSE AfterAttempts([b EXCEPT !.state = StateAfterFailure(b.state, b.failure_count + 1,
                                                              AdapterBreaker.failure_threshold),
                                 !.failure_count = b.failure_count + 1],
                       fails, n - 1)

\* registry.py:32-51, one caller at a time.
GetAdapter(provider_id, auth_ok) ==
    LET got == GetAdapterCall(provider_id, auth_ok)
        adapter_ok == got.result[1] = "return"
    IN /\ next_instance + got.created <= MaxInstances
       /\ instances' = got.cache
       /\ next_instance' = next_instance + got.created
       /\ authed' = IF got.authenticate /\ adapter_ok
                    THEN [authed EXCEPT ![provider_id] = @ \cup {got.result[2]}]
                    ELSE authed
       /\ handed' = IF adapter_ok
                    THEN [handed EXCEPT ![provider_id] = @ \cup {got.result[2]}]
                    ELSE handed
       /\ UNCHANGED <<adapter_classes, configs, ga>>
       /\ UNCHANGED nonRegistryVars

\* base.py:80-101 on the adapter the registry holds for the provider: func
\* raises on every attempt (fails) or returns.
ResilientCallOn(provider_id, fails) ==
    /\ provider_id \in DOMAIN instances
    /\ LET i == instances[provider_id]
       IN circuit_breakers' =
             Store(circuit_breakers, i,
                   AfterAttempts(GetCircuitBreaker(i, provider_id), fails,
                                 AdapterBreaker.max_attempts))
    /\ UNCHANGED <<sync_result, rs>>
    /\ UNCHANGED <<breakerVars, retryVars, budgetVars, ledgerVars, trackerVars,
                   registryVars, loopVars, apiVars, lockVars>>

(***************************************************************************)
(* The budget rule endpoints (api/budget.py:42-68) with their request      *)
(* bodies (api/schemas.py:129-141); alert_threshold is in percent.         *)
(***************************************************************************)
\* A field of an update body is <<v>> when the request sets it and Unset when
\* it does not (model_dump(exclude_unset=True), budget.py:64).
Unset == <<>>

\* BudgetRuleCreate's field constraints (schemas.py:131-132): gt=0, ge=0.0, le=1.0.
ValidCreate(body) ==
    /\ body.monthly_limit > 0
    /\ body.alert_threshold >= 0
    /\ body.alert_threshold <= 100

\* BudgetRuleUpdate declares no constraint (schemas.py:137-141).
ValidUpdate(body) == TRUE

CreateBodies ==
    [provider_id : {None, "p1"},
     monthly_limit : {0, 10},
     alert_threshold : {80, 120},
     action_on_exceed : {"alert"},
     is_active : {TRUE}]

UpdateBodies ==
    [monthly_limit : {Unset, <<0>>, <<20>>},
     alert_threshold : {Unset, <<50>>, <<120>>},
     action_on_exceed : {Unset, <<"scale_down">>},
     is_active : {Unset, <<FALSE>>}]

\* `for k, v in body.model_dump(exclude_unset=True).items(): setattr(rule, k, v)`
\* (budget.py:64-65).
Updated(rule, body) ==
    [provider_id |-> rule.provider_id,
     monthly_limit |-> IF body.monthly_limit = Unset THEN rule.monthly_limit
                       ELSE body.monthly_limit[1],
     alert_threshold |-> IF body.alert_threshold = Unset THEN rule.alert_threshold
                         ELSE body.alert_threshold[1],
     action_on_exceed |-> IF body.action_on_exceed = Unset THEN rule.action_on_exceed
                          ELSE body.action_on_exceed[1],
     is_active |-> IF body.is_active = Unset THEN rule.is_active ELSE body.is_active[1]]

ruleFrame == <<breakerVars, retryVars, ledgerVars, trackerVars, registryVars, loopVars,
               lockVars, supportVars, app, op_calls, resources, spending, action_log,
               actions_taken, adapter_calls, lockdown_result>>

\* POST /budget/rules (budget.py:42-48): a body that fails validation is
\* answered 422 before the handler runs.
CreateRule(body) ==
    /\ IF ~ValidCreate(body)
       THEN response' = 422 /\ UNCHANGED rules
       ELSE /\ \E b \in RuleIds : b \notin DOMAIN rules
            /\ LET b == CHOOSE x \in RuleIds :
                            /\ x \notin DOMAIN rules
                            /\ \A i, j \in DOMAIN RuleOrder :
                                  (RuleOrder[i] = x /\ j < i) => RuleOrder[j] \in DOMAIN rules
               IN rules' = Store(rules, b, body)
            /\ response' = 201
    /\ UNCHANGED ruleFrame

\* PUT /budget/rules/{rule_id} (budget.py:59-68).
UpdateRule(rule_id, body) ==
    /\ IF ~ValidUpdate(body)
       THEN response' = 422 /\ UNCHANGED rules
       ELSE IF rule_id \notin DOMAIN rules
       THEN response' = 404 /\ UNCHANGED rules
       ELSE /\ rules' = [rules EXCEPT ![rule_id] = Updated(rules[rule_id], body)]
            /\ response' = 200
    /\ UNCHANGED ruleFrame

NextRules ==
    \/ \E body \in CreateBodies : CreateRule(body)
    \/ \E rule_id \in RuleIds, body \in UpdateBodies : UpdateRule(rule_id, body)

\* The registry after startup: both adapter classes registered, a
\* ProviderConfig row for every provider.
AdaptersInit ==
    /\ adapter_classes = [pt \in ProviderTypes |-> AdapterClassOf[pt]]
    /\ configs \in [Providers -> ProviderTypes]
    /\ instances = [p \in {} |-> 0]
    /\ next_instance = 0
    /\ ga = [t \in Threads |-> NoFrame]
    /\ authed = [p \in Providers |-> {}]
    /\ handed = [p \in Providers |-> {}]

NextAdapters ==
    \/ \E p \in Providers, auth_ok \in BOOLEAN : GetAdapter(p, auth_ok)
    \/ \E p \in Providers \cup {None} : ClearCache(p)
    \/ \E p \in Providers, fails \in BOOLEAN : ResilientCallOn(p, fails)

(***************************************************************************)
(* sync_spending_once (services/spending_sync.py:21-76).  The coroutine    *)
(* has no await, so one run is one step of the event loop.                 *)
(***************************************************************************)
\* What adapter.get_spending(period) does (spending_sync.py:47): raise,
\* return None, or return an amount.
SpendOutcomes == {<<"raise">>, <<"none">>, <<"amount", -1>>, <<"amount", 0>>, <<"amount", 8>>}

\* The orders in which db.query(ProviderConfig).all() may list the rows.
QueryOrders == {<<"p1", "p2">>, <<"p2", "p1">>}

\* record_spending (budget_monitor.py:30-55) on a table of rows.
Upsert(rows, provider_id, per, amount) ==
    LET matching == {row \in rows : row.provider_id = provider_id /\ row.period = per}
    IN IF matching # {}
       THEN LET existing == CHOOSE row \in matching : TRUE
            IN (rows \ {existing}) \cup
                   {[existing EXCEPT !.amount = amount, !.rewritten = TRUE]}
       ELSE rows \cup {[provider_id |-> provider_id, period |-> per,
                        amount |-> amount, rewritten |-> FALSE]}

\* spending_sync.py:46-68: the result entry of a provider whose adapter was
\* obtained.
SyncEntry(provider_id, out) ==
    [provider_id |-> provider_id,
     status |-> CASE out[1] = "raise" -> "error"
                  [] out[1] = "amount" /\ out[2] >= 0 -> "ok"
                  [] OTHER -> "skipped"]

\* spending_sync.py:35-68: the loop from the k-th row on.  get_adapter of
\* line 36 stands outside the try of line 46: when it raises, the loop and
\* the function are left with the exception.
RECURSIVE SyncFrom(_, _, _, _, _)
SyncFrom(order, k, st, auth_ok, outs) ==
    IF k > Len(order) \/ st.raised THEN st
    ELSE LET p == order[k]
             got == GetAdapterIn(st.cache, st.last, p, auth_ok[p])
             adapter_ok == got.result[1] = "return"
             entry == SyncEntry(p, outs[p])
         IN SyncFrom(order, k + 1,
                [cache |-> got.cache,
                 last |-> st.last + got.created,
                 authed |-> IF got.authenticate /\ adapter_ok
                            THEN [st.authed EXCEPT ![p] = @ \cup {got.result[2]}]
                            ELSE st.authed,
                 handed |-> IF adapter_ok
                            THEN [st.handed EXCEPT ![p] = @ \cup {got.result[2]}]
                            ELSE st.handed,
                 rows |-> IF adapter_ok /\ entry.status = "ok"
                          THEN Upsert(st.rows, p, CurrentPeriod, outs[p][2])
                          ELSE st.rows,
                 results |-> IF adapter_ok THEN Append(st.results, entry)
                             ELSE st.results,
                 raised |-> ~adapter_ok],
                auth_ok, outs)

\* sync_spending_once(db): the rows of ProviderConfig in the order the query
\* lists them, then the loop; sync_result is what the caller gets.
SyncSpendingOnce(order, auth_ok, outs) ==
    LET listed == SelectSeq(order, LAMBDA p : configs[p] # None)
        end == SyncFrom(listed, 1,
                        [cache |-> instances, last |-> next_instance,
                         authed |-> authed, handed |-> handed,
                         rows |-> spending, results |-> <<>>, raised |-> FALSE],
                        auth_ok, outs)
    IN /\ end.last <= MaxInstances
       /\ instances' = end.cache
       /\ next_instance' = end.last
       /\ authed' = end.authed
       /\ handed' = end.handed
       /\ spending' = end.rows
       /\ sync_result' = [called |-> TRUE,
                          outcome |-> IF end.raised THEN "raise" ELSE "return",
                          providers |-> end.results]
       /\ UNCHANGED <<adapter_classes, configs, ga, circuit_breakers, rs>>
       /\ UNCHANGED <<resources, rules, action_log, actions_taken, adapter_calls,
                      lockdown_result>>
       /\ UNCHANGED <<breakerVars, retryVars, ledgerVars, trackerVars, loopVars,
                      apiVars, lockVars>>

\* The registry after startup with a ProviderConfig row for some providers.
SyncInit ==
    /\ adapter_classes = [pt \in ProviderTypes |-> AdapterClassOf[pt]]
    /\ configs \in [Providers -> {"oci", None}]
    /\ instances = [p \in {} |-> 0]
    /\ next_instance = 0
    /\ ga = [t \in Threads |-> NoFrame]
    /\ authed = [p \in Providers |-> {}]
    /\ handed = [p \in Providers |-> {}]

NextSync ==
    \/ \E order \in QueryOrders, auth_ok \in [Providers -> BOOLEAN],
          outs \in [Providers -> SpendOutcomes] : SyncSpendingOnce(order, auth_ok, outs)
    \/ \E p \in Providers \cup {None} : ClearCache(p)

(***************************************************************************)
(* record_spending called in several database sessions at once             *)
(* (budget_monitor.py:30-55): the sync loop uses its own SessionLocal()    *)
(* (spending_sync.py:29) and every API request one of get_db (db.py:32-38, *)
(* api/budget.py:99-107, run in the server's thread pool).  A session      *)
(* queries, then commits; the table has neither a unique constraint on     *)
(* (provider_id, period) (models/budget.py:34-48) nor a lock.              *)
(***************************************************************************)
\* The amounts the sessions write.
SessionAmounts == {5, 8}

\* The rows of a key as a query sees them.
RecordsOf(provider_id, per) ==
    {row \in spending : row.provider_id = provider_id /\ row.period = per}

\* budget_monitor.py:35-40: the session reads the row of the key, if any.
QueryExisting(c, provider_id, amount, period) ==
    LET per == PeriodOr(period)
        matching == RecordsOf(provider_id, per)
    IN /\ rs[c].pc = "idle"
       /\ IF matching # {}
          THEN \E existing \in matching :
                  rs' = [rs EXCEPT ![c] = [pc |-> "found", provider_id |-> provider_id,
                                           period |-> per, amount |-> amount,
                                           existing |-> existing.id]]
          ELSE rs' = [rs EXCEPT ![c] = [pc |-> "absent", provider_id |-> provider_id,
                                        period |-> per, amount |-> amount,
                                        existing |-> None]]
       /\ UNCHANGED <<circuit_breakers, sync_result>>
       /\ UNCHANGED <<breakerVars, retryVars, budgetVars, ledgerVars, trackerVars,
                      registryVars, loopVars, apiVars, lockVars>>

\* budget_monitor.py:41-46: the row read is given the amount and committed.
CommitUpdate(c) ==
    /\ rs[c].pc = "found"
    /\ spending' = {IF /\ row.provider_id = rs[c].provider_id
                       /\ row.period = rs[c].period
                       /\ row.id = rs[c].existing
                    THEN [row EXCEPT !.amount = rs[c].amount, !.rewritten = TRUE]
                    ELSE row : row \in spending}
    /\ rs' = [rs EXCEPT ![c] = NoSession]
    /\ UNCHANGED <<circuit_breakers, sync_result>>
    /\ UNCHANGED <<resources, rules, action_log, actions_taken, adapter_calls,
                   lockdown_result>>
    /\ UNCHANGED <<breakerVars, retryVars, ledgerVars, trackerVars,
                   registryVars, loopVars, apiVars, lockVars>>

\* budget_monitor.py:48-55: a new row, with a primary key of its own, is
\* added and committed.
CommitInsert(c) ==
    /\ rs[c].pc = "absent"
    /\ spending' = spending \cup
           {[provider_id |-> rs[c].provider_id, period |-> rs[c].period,
             amount |-> rs[c].amount, rewritten |-> FALSE, id |-> c]}
    /\ rs' = [rs EXCEPT ![c] = NoSession]
    /\ UNCHANGED <<circuit_breakers, sync_result>>
    /\ UNCHANGED <<resources, rules, action_log, actions_taken, adapter_calls,
                   lockdown_result>>
    /\ UNCHANGED <<breakerVars, retryVars, ledgerVars, trackerVars,
                   registryVars, loopVars, apiVars, lockVars>>

NextSessions ==
    \/ \E c \in Sessions, pid \in Providers, amount \in SessionAmounts :
          QueryExisting(c, pid, amount, None)
    \/ \E c \in Sessions : CommitUpdate(c)
    \/ \E c \in Sessions : CommitInsert(c)

\* enforce_budget alone, as the scheduler's enforcement run calls it.
NextEnforce ==
    \E pid \in Providers \cup {None}, ord \in CostOrders : EnforceBudget(pid, ord)

\* The breaker used through call() only, as provider adapters use it.
NextCalls ==
    \/ Tick
    \/ \E t \in Threads : CallReject(t)
    \/ \E t \in Threads : CallInvoke(t)
    \/ \E t \in Threads, v \in Values : FnReturn(t, v)
    \/ \E t \in Threads, e \in Errors : FnRaise(t, e)
    \/ \E t \in Threads : CallExit(t)
    \/ GetStatusReadState
    \/ GetStatusReadCount

\* The breaker's whole public interface.
Next ==
    \/ NextCalls
    \/ StateRead
    \/ RecordSuccess
    \/ RecordFailure

Init ==
    BreakerInit /\ RetryIdle /\ BudgetIdle /\ LedgerIdle /\ TrackerIdle /\ ServicesIdle

Spec == Init /\ [][Next]_vars

SpecCalls == Init /\ [][NextCalls]_vars

InitRetry ==
    BreakerIdle /\ RetryInit /\ BudgetIdle /\ LedgerIdle /\ TrackerIdle /\ ServicesIdle

InitBudget ==
    BreakerIdle /\ RetryIdle /\ BudgetInit /\ LedgerIdle /\ TrackerIdle /\ ServicesIdle

SpecBudget == InitBudget /\ [][NextBudget]_vars

SpecRetry == InitRetry /\ [][NextRetry]_vars

InitTracker ==
    BreakerIdle /\ RetryIdle /\ BudgetIdle /\ LedgerIdle /\ TrackerInit /\ ServicesIdle

SpecTracker == InitTracker /\ [][NextTracker]_vars

InitEnforce ==
    BreakerIdle /\ RetryIdle /\ EnforceInit /\ LedgerIdle /\ TrackerIdle /\ ServicesIdle

SpecEnforce == InitEnforce /\ [][NextEnforce]_vars

InitLedger ==
    BreakerIdle /\ RetryIdle /\ LedgerInit /\ TrackerIdle /\ ServicesIdle

SpecLedger == InitLedger /\ [][NextLedger]_vars

InitResilient ==
    BreakerInit /\ ResilientIdle /\ BudgetIdle /\ LedgerIdle /\ TrackerIdle /\ ServicesIdle

SpecResilient == InitResilient /\ [][NextResilient]_vars

InitRegistry ==
    /\ BreakerIdle /\ RetryIdle /\ BudgetIdle /\ LedgerIdle /\ TrackerIdle
    /\ RegistryInit /\ LoopsIdle /\ AppFresh /\ LockFree /\ SupportIdle

SpecRegistry == InitRegistry /\ [][NextRegistry]_vars

InitAdapters ==
    /\ BreakerIdle /\ RetryIdle /\ BudgetIdle /\ LedgerIdle /\ TrackerIdle
    /\ AdaptersInit /\ LoopsIdle /\ AppFresh /\ LockFree /\ SupportIdle

SpecAdapters == InitAdapters /\ [][NextAdapters]_vars

\* Spending syncs on the registry after startup.
InitSync ==
    /\ BreakerIdle /\ RetryIdle /\ BudgetIdle /\ LedgerIdle /\ TrackerIdle
    /\ SyncInit /\ LoopsIdle /\ AppFresh /\ LockFree /\ SupportIdle

SpecSync == InitSync /\ [][NextSync]_vars

\* record_spending in two sessions on an empty table.
InitSessions ==
    BreakerIdle /\ RetryIdle /\ BudgetIdle /\ LedgerIdle /\ TrackerIdle /\ ServicesIdle

SpecSessions == InitSessions /\ [][NextSessions]_vars

\* The rule endpoints on an empty rule table.
InitRules ==
    BreakerIdle /\ RetryIdle /\ BudgetIdle /\ LedgerIdle /\ TrackerIdle /\ ServicesIdle

SpecRules == InitRules /\ [][NextRules]_vars

InitLoops ==
    /\ BreakerIdle /\ RetryIdle /\ BudgetIdle /\ LedgerIdle /\ TrackerIdle
    /\ RegistryIdle /\ LoopsInit /\ AppFresh /\ LockFree /\ SupportIdle

SpecLoops == InitLoops /\ [][NextLoops]_vars /\ LoopsFairness

InitApp ==
    BreakerIdle /\ RetryIdle /\ LedgerIdle /\ TrackerIdle /\ AppInit /\ LockFree /\ SupportIdle

SpecApp == InitApp /\ [][NextApp]_vars

InitTrackerThreads ==
    /\ BreakerIdle /\ RetryIdle /\ BudgetIdle /\ LedgerIdle /\ TrackerInit
    /\ RegistryIdle /\ LoopsIdle /\ AppFresh /\ LockFree /\ SupportIdle

SpecTrackerThreads == InitTrackerThreads /\ [][NextTrackerThreads]_vars

\* Resilient calls on an adapter whose wrapped function fails on every
\* invocation: the adapter's own breaker (base.py:27-31: threshold 5, reset
\* after 60 s) behind retry(max_attempts=3).
NextFailing ==
    \/ Tick
    \/ ResilientCallStart
    \/ InnerCallReject
    \/ InnerCallInvoke
    \/ \E e \in Errors : FnRaise(ResThread, e)
    \/ \E j \in JitterPercents : InnerFailsRetry(j)
    \/ InnerFailsLast
    \/ SleepEnds

InitFailing ==
    BreakerIdle /\ ResilientIdle /\ BudgetIdle /\ LedgerIdle /\ TrackerIdle /\ ServicesIdle

SpecFailing == InitFailing /\ [][NextFailing]_vars

(***************************************************************************)
(* Properties of the circuit breaker.                                      *)
(***************************************************************************)

\* What a read of the `state` property would return now.
StateIfRead == StateAfterRead(cb_state, now, last_failure_time, reset_timeout)

\* A step in which the `state` property is read: directly, by get_status or
\* by call.
IsStateReadStep ==
    \/ StateRead
    \/ (gs_pc = "idle" /\ gs_pc' = "have_state")
    \/ \E t \in Threads : pc[t] = "idle" /\ pc'[t] # "idle"

IsRecordSuccessStep == RecordSuccess \/ \E t \in Threads, v \in Values : FnReturn(t, v)

IsRecordFailureStep == RecordFailure \/ \E t \in Threads, e \in Errors : FnRaise(t, e)

\* C2: after failure_threshold or more consecutive record_failure() calls with
\* no record_success() in between, and while less than reset_timeout has
\* elapsed since the last of them, the breaker's state reads OPEN; with fewer
\* than failure_threshold consecutive failures it reads CLOSED.
C2_OpensAtThreshold ==
    /\ (consec >= failure_threshold /\ now - last_failure_time < reset_timeout)
           => StateIfRead = OPEN
    /\ consec < failure_threshold => StateIfRead = CLOSED

C2_Witness ==
    /\ failure_threshold >= 2
    /\ consec = failure_threshold
    /\ now - last_failure_time < reset_timeout
    /\ cb_state = OPEN

\* C3: a call whose state read returns OPEN ends rejected with
\* CircuitBreakerError, has not invoked func, and leaves the failure count, the
\* last-failure timestamp and the state as they were.
C3_RejectionLeavesBreaker ==
    /\ [](\A t \in Threads : pc[t] = "rejected" =>
            /\ invoked[t] = 0
            /\ outcome[t] = CircuitBreakerError)
    /\ [][\A t \in Threads :
            (pc[t] = "idle" /\ pc'[t] # "idle" /\ StateIfRead = OPEN) =>
                /\ pc'[t] = "rejected"
                /\ invoked'[t] = 0
                /\ UNCHANGED <<cb_state, failure_count, last_failure_time>>]_vars

C3_Witness ==
    \E t \in Threads : pc[t] = "rejected" /\ cb_state = OPEN /\ failure_count > 0

\* C4: a call whose state read returns CLOSED or HALF_OPEN invokes func exactly
\* once; when func returns, record_success is applied once and call returns
\* func's result; when func raises, record_failure is applied once and call
\* raises the same failure.
C4_CallBookkeeping ==
    /\ [](\A t \in Threads :
            /\ pc[t] = "running" =>
                 invoked[t] = 1 /\ succ_rec[t] = 0 /\ fail_rec[t] = 0
            /\ pc[t] = "done" =>
                 /\ invoked[t] = 1
                 /\ outcome[t] = fn_outcome[t]
                 /\ fn_outcome[t][1] = "return" => succ_rec[t] = 1 /\ fail_rec[t] = 0
                 /\ fn_outcome[t][1] = "raise" => succ_rec[t] = 0 /\ fail_rec[t] = 1
                 /\ fn_outcome[t][1] \in {"return", "raise"})
    /\ [][\A t \in Threads :
            (pc[t] = "idle" /\ pc'[t] # "idle" /\ StateIfRead # OPEN) =>
                pc'[t] = "running" /\ invoked'[t] = 1]_vars
    /\ [][\A t \in Threads :
            (pc[t] = "running" /\ pc'[t] # "running") => pc'[t] = "done"]_vars

C4_Witness ==
    \E t, u \in Threads :
        /\ pc[t] = "done" /\ outcome[t] = <<"return", "v2">>
        /\ pc[u] = "done" /\ outcome[u] = <<"raise", "E2">>

\* C5: the OPEN to HALF_OPEN transition happens only in a step that reads the
\* state, and only when at least reset_timeout has elapsed since the last
\* recorded failure; a read while OPEN returns OPEN before that and HALF_OPEN
\* from then on; the passing of time alone leaves the stored state as it is.
C5_LazyHalfOpen ==
    /\ [][(cb_state = OPEN /\ StateRead) =>
            IF now - last_failure_time >= reset_timeout
            THEN cb_state' = HALF_OPEN /\ read_result' = HALF_OPEN
            ELSE cb_state' = OPEN /\ read_result' = OPEN]_vars
    /\ [][(cb_state = OPEN /\ gs_pc = "idle" /\ gs_pc' = "have_state") =>
            IF now - last_failure_time >= reset_timeout
            THEN cb_state' = HALF_OPEN /\ read_result' = HALF_OPEN
            ELSE cb_state' = OPEN /\ read_result' = OPEN]_vars
    /\ [][\A t \in Threads :
            (cb_state = OPEN /\ pc[t] = "idle" /\ pc'[t] # "idle") =>
                IF now - last_failure_time >= reset_timeout
                THEN cb_state' = HALF_OPEN /\ pc'[t] = "running"
                ELSE cb_state' = OPEN /\ pc'[t] = "rejected"]_vars
    /\ [][(cb_state = OPEN /\ cb_state' = HALF_OPEN) =>
            IsStateReadStep /\ now - last_failure_time >= reset_timeout]_vars
    /\ [][now' # now => cb_state' = cb_state]_vars

C5_Witness ==
    /\ cb_state = HALF_OPEN
    /\ read_result = HALF_OPEN
    /\ now - last_failure_time > reset_timeout
    /\ last_probe = "none"

\* C6: from HALF_OPEN, record_success() gives CLOSED with failure_count 0, and
\* record_failure() gives OPEN whatever the count, with the reset_timeout wait
\* starting again at that failure.
C6_ProbeOutcome ==
    /\ [][(cb_state = HALF_OPEN /\ IsRecordSuccessStep) =>
            cb_state' = CLOSED /\ failure_count' = 0]_vars
    /\ [][(cb_state = HALF_OPEN /\ IsRecordFailureStep) =>
            /\ cb_state' = OPEN
            /\ last_failure_time' = now
            /\ StateAfterRead(cb_state', now', last_failure_time', reset_timeout) = OPEN]_vars
    /\ [](last_probe = "succeeded" => cb_state # HALF_OPEN)

C6_Witness ==
    /\ last_probe = "failed"
    /\ cb_state = OPEN
    /\ last_failure_time = now

\* C7: the state changes only along CLOSED->OPEN, OPEN->HALF_OPEN,
\* HALF_OPEN->CLOSED and HALF_OPEN->OPEN.
C7_OnlyDocumentedTransitions ==
    [][cb_state' # cb_state =>
          <<cb_state, cb_state'>> \in {<<CLOSED, OPEN>>, <<OPEN, HALF_OPEN>>,
                                       <<HALF_OPEN, CLOSED>>, <<HALF_OPEN, OPEN>>}]_vars

\* C8: while the breaker is HALF_OPEN, at most one call that read HALF_OPEN
\* has invoked func without its outcome being recorded yet.
C8_SingleProbe ==
    cb_state = HALF_OPEN =>
        Cardinality({t \in Threads : pc[t] = "running" /\ seen[t] = HALF_OPEN}) <= 1

(***************************************************************************)
(* Properties of retry.                                                    *)
(***************************************************************************)
IsReturn(c) == c[1] = "return"
IsRetryableRaise(c) == c[1] = "raise" /\ c[2] \in rcfg.retryable
IsOtherRaise(c) == c[1] = "raise" /\ c[2] \notin rcfg.retryable
AllRetryableRaises(n) == \A i \in 1..n : IsRetryableRaise(calls[i])

\* C9: a function that fails retryably k < max_attempts times and then
\* succeeds is invoked k+1 times with k sleeps and its value is returned; one
\* that fails retryably on every attempt is invoked max_attempts times with
\* max_attempts-1 sleeps, none after the last attempt, and its last failure is
\* raised unmodified.
C9_RetryCounts ==
    /\ Len(calls) <= rcfg.max_attempts
    \* a success ends the run: it is the last invocation and its value is returned
    /\ \A i \in 1..Len(calls) :
         IsReturn(calls[i]) =>
            /\ i = Len(calls)
            /\ r_pc = "returned"
            /\ r_result = calls[i]
            /\ Len(sleeps) = i - 1
    \* retryable failures short of max_attempts do not end the run: one sleep
    \* each, then the next invocation
    /\ (AllRetryableRaises(Len(calls)) /\ Len(calls) < rcfg.max_attempts) =>
            /\ r_pc \in {"calling", "sleeping"}
            /\ r_pc = "calling" => Len(sleeps) = Len(calls) /\ attempt = Len(calls) + 1
            /\ r_pc = "sleeping" => Len(sleeps) = Len(calls) /\ attempt = Len(calls)
    \* retryable failures on every attempt
    /\ (AllRetryableRaises(Len(calls)) /\ Len(calls) = rcfg.max_attempts) =>
            /\ r_pc = "raised"
            /\ r_result = calls[Len(calls)]
            /\ Len(sleeps) = rcfg.max_attempts - 1
    /\ r_pc = "returned" => Len(calls) >= 1 /\ IsReturn(calls[Len(calls)])

C9_Witness ==
    /\ rcfg.max_attempts = 3
    /\ r_pc = "returned"
    /\ Len(calls) = 3
    /\ Len(sleeps) = 2
    /\ r_result = <<"return", "v2">>

\* C10: a failure of a kind outside the retryable set ends the run at once,
\* on whichever attempt it occurs: it is the last invocation, it is raised to
\* the caller, and no sleep follows it.
C10_NonRetryablePropagates ==
    \A i \in 1..Len(calls) :
        IsOtherRaise(calls[i]) =>
            /\ i = Len(calls)
            /\ r_pc = "raised"
            /\ r_result = calls[i]
            /\ Len(sleeps) = i - 1
            /\ AllRetryableRaises(i - 1)

C10_Witness ==
    /\ rcfg.max_attempts = 3
    /\ r_pc = "raised"
    /\ Len(calls) = 2
    /\ IsOtherRaise(calls[2])
    /\ Len(sleeps) = 1

(***************************************************************************)
(* Properties of budget enforcement.                                       *)
(***************************************************************************)
CriticalResources == {r \in DOMAIN resources : resources[r].protection_level = "critical"}

\* C1: automatic enforcement never selects a critical resource: no entry
\* returned by enforce_budget, no ActionLog row written by the budget monitor,
\* no adapter call and no step of budget_lockdown names one, and no
\* enforcement step changes a critical resource's row.
C1_CriticalNeverEnforced ==
    /\ [](/\ \A i \in DOMAIN actions_taken :
               actions_taken[i].resource_id \notin CriticalResources
          /\ \A i \in DOMAIN action_log :
               action_log[i].initiated_by = "budget_monitor" =>
                   action_log[i].resource_id \notin CriticalResources
          /\ \A i \in DOMAIN adapter_calls :
               adapter_calls[i].resource_id \notin CriticalResources
          /\ \A i \in DOMAIN lockdown_result.steps :
               lockdown_result.steps[i].resource_id \notin CriticalResources)
    /\ [][\A r \in CriticalResources : resources'[r] = resources[r]]_vars

\* A running, auto-terminating critical resource costs more than the resource
\* that a scale_down rule has selected.
C1_Witness ==
    \E r, q \in DOMAIN resources :
        /\ resources[r].protection_level = "critical"
        /\ resources[r].status = "running"
        /\ resources[r].auto_terminate
        /\ resources[r].monthly_cost_estimate > resources[q].monthly_cost_estimate
        /\ \E i \in DOMAIN actions_taken :
              /\ actions_taken[i].resource_id = q
              /\ actions_taken[i].action = "scale_down"
        /\ \E i \in DOMAIN action_log : action_log[i].resource_id = q

(***************************************************************************)
(* Properties of the ErrorTracker.                                         *)
(***************************************************************************)

\* C13: for a tracker of capacity max_entries >= 1, under any sequence of
\* record, get_errors and clear calls: count never exceeds max_entries; the
\* retained entries are exactly the min(n, max_entries) most recent of the n
\* entries recorded since the last clear, oldest first evicted; get_errors
\* without a source filter returns them newest-first (all of them when limit
\* is at least count, otherwise the limit newest); after clear() count is 0.
C13_RingBuffer ==
    /\ [](/\ Count <= et_max
          /\ Count = Min(Len(et_recorded), et_max)
          /\ \A i \in 1..Count :
               et_entries[i] = et_recorded[Len(et_recorded) - Count + i]
          /\ (et_returned.called /\ et_returned.source = None /\ et_returned.limit >= 0) =>
               /\ Len(et_returned.entries) = Min(et_returned.limit, Count)
               /\ \A i \in 1..Len(et_returned.entries) :
                    et_returned.entries[i] = et_recorded[Len(et_recorded) - i + 1])
    /\ [][TrackerClear => Count' = 0]_vars

\* Three entries were recorded since a clear into a tracker of capacity two,
\* and get_errors has returned both retained ones.
C13_Witness ==
    /\ et_max = 2
    /\ et_seq = 4
    /\ Len(et_recorded) = 3
    /\ et_returned.called
    /\ et_returned.source = None
    /\ Len(et_returned.entries) = 2
    /\ et_returned.entries[1].serial = 4
    /\ et_returned.entries[2].serial = 3

(***************************************************************************)
(* Properties of the resilient call.                                       *)
(***************************************************************************)
IsRejection(c) == c = CircuitBreakerError

\* The resilient call raises to its caller in this step.
ResilientRaises == r_pc = "calling" /\ r_pc' = "raised"

\* The resilient call returns a value to its caller in this step.
ResilientReturns == r_pc = "calling" /\ r_pc' = "returned"

\* The step records exactly one entry, for failure e of this provider.
RecordsOnce(e) ==
    /\ et_seq' = et_seq + 1
    /\ Len(et_recorded') = Len(et_recorded) + 1
    /\ et_recorded'[Len(et_recorded')].source = "provider.oci"
    /\ et_recorded'[Len(et_recorded')].error_type = e
    /\ SubSeq(et_recorded', 1, Len(et_recorded)) = et_recorded
    /\ et_entries'[Len(et_entries')] = et_recorded'[Len(et_recorded')]

\* C11: an attempt of the resilient call that the OPEN breaker rejects is
\* the call's last attempt: the rejection is raised to the caller at once, and
\* no backoff sleep and no further attempt follows it.
C11_RejectionNotRetried ==
    \A i \in 1..Len(calls) :
        IsRejection(calls[i]) =>
            /\ i = Len(calls)
            /\ r_pc = "raised"
            /\ r_result = CircuitBreakerError
            /\ Len(sleeps) = i - 1

ScopeOf(provider_id) == IF provider_id = None THEN Providers ELSE {provider_id}

\* The current-period spending in a scope, row by row.
ScopeSpent(provider_id) ==
    SumAmounts({row \in spending :
                   row.period = CurrentPeriod /\ row.provider_id \in ScopeOf(provider_id)})

\* C14: every status check_budget returns carries the sum of the
\* current-period spending in its rule's scope, and with utilization = spent /
\* monthly_limit (alert_threshold in percent) it is exceeded iff utilization
\* >= 1, warning iff alert_threshold <= utilization < 1 and ok otherwise, with
\* one alert message for exceeded and warning and none for ok.
C14_Classification ==
    check_result.called =>
        \A i \in DOMAIN check_result.statuses :
            LET bs == check_result.statuses[i]
                rule == rules[bs.rule]
                spent == ScopeSpent(rule.provider_id)
                limit == rule.monthly_limit
            IN /\ bs.total_spent = spent
               /\ bs.status \in {"exceeded", "warning", "ok"}
               /\ bs.status = "exceeded" <=> spent >= limit
               /\ bs.status = "warning" <=>
                     (rule.alert_threshold * limit <= spent * 100 /\ spent < limit)
               /\ Len(bs.alerts) = IF bs.status = "ok" THEN 0 ELSE 1

\* One call has returned two warnings at exactly the threshold of 80 percent:
\* 8 of 10 for a rule of one provider and 16 of 20 over both providers.
C14_Witness ==
    /\ check_result.called
    /\ Len(check_result.statuses) = 2
    /\ rules["b1"].alert_threshold = 80
    /\ rules["b1"].provider_id # None
    /\ check_result.statuses[1].status = "warning"
    /\ check_result.statuses[1].total_spent = 8
    /\ check_result.statuses[2].status = "warning"
    /\ check_result.statuses[2].total_spent = 16
    /\ check_result.statuses[2].monthly_limit = 20

\* The rules check_budget(provider_id) has to evaluate.
ExpectedRules(provider_id) ==
    {b \in RuleIds :
        /\ rules[b].is_active
        /\ \/ provider_id = None
           \/ rules[b].provider_id = provider_id
           \/ rules[b].provider_id = None}

\* C15: check_budget(provider_id) returns one status for every active rule
\* in scope and nothing else: with a provider filter that provider's rules and
\* the global rules, without one every active rule; each status is its own
\* rule's, also when several rules have the same scope.
C15_OneStatusPerRule ==
    check_result.called =>
        LET statuses == check_result.statuses
        IN /\ {statuses[i].rule : i \in DOMAIN statuses} =
                 ExpectedRules(check_result.provider_id)
           /\ Len(statuses) = Cardinality(ExpectedRules(check_result.provider_id))
           /\ \A i \in DOMAIN statuses :
                 /\ statuses[i].provider_id = rules[statuses[i].rule].provider_id
                 /\ statuses[i].monthly_limit = rules[statuses[i].rule].monthly_limit
                 /\ statuses[i].action_on_exceed = rules[statuses[i].rule].action_on_exceed

\* check_budget("p2") has returned the status of the one global rule, the
\* other rule being an active rule of p1.
C15_Witness ==
    /\ check_result.called
    /\ check_result.provider_id = "p2"
    /\ Len(check_result.statuses) = 1
    /\ check_result.statuses[1].provider_id = None
    /\ \E b \in RuleIds : rules[b].is_active /\ rules[b].provider_id = "p1"

\* The records of one (provider_id, period).
RowsOf(rows, provider_id, period) ==
    {row \in rows : row.provider_id = provider_id /\ row.period = period}

\* C16: under record_spending calls made one at a time there is at most one
\* record per (provider_id, period); after record_spending(provider_id,
\* amount, period) get_spending for that key is amount, whatever was recorded
\* before, and the records of every other key are as they were.
C16_Upsert ==
    /\ [](\A x, y \in spending :
             (x.provider_id = y.provider_id /\ x.period = y.period) => x = y)
    /\ [][\A pid \in Providers, amount \in Amounts, period \in {None, EarlierPeriod} :
            RecordSpending(pid, amount, period) =>
                /\ GetSpending(pid, PeriodOr(period))' = amount
                /\ Cardinality(RowsOf(spending', pid, PeriodOr(period))) = 1
                /\ \A q \in Providers, per \in {CurrentPeriod, EarlierPeriod} :
                      <<q, per>> # <<pid, PeriodOr(period)>> =>
                          RowsOf(spending', q, per) = RowsOf(spending, q, per)]_vars

\* A record has been rewritten with a smaller amount next to a record of
\* another provider and one of another period.
C16_Witness ==
    /\ \E row \in spending :
          /\ row.provider_id = "p1" /\ row.period = CurrentPeriod
          /\ row.rewritten /\ row.amount = 5
    /\ \E row \in spending : row.provider_id = "p2" /\ row.amount = 10
    /\ \E row \in spending : row.period = EarlierPeriod /\ row.amount = 8
    /\ GetSpending("p1", CurrentPeriod) = 5

(***************************************************************************)
(* Properties of enforce_budget.                                           *)
(***************************************************************************)

\* The rule's spending has reached its limit.
RuleExceeded(b) == ScopeSpent(rules[b].provider_id) >= rules[b].monthly_limit

\* Whether an exceeded rule b accounts for entry x.
Produces(b, x) ==
    LET rule == rules[b]
    IN /\ x.provider_id = rule.provider_id
       /\ CASE rule.action_on_exceed = "alert" ->
                 x.resource_id = None /\ x.action = "alert"
            [] rule.action_on_exceed = "scale_down" ->
                 /\ x.action = "scale_down"
                 /\ x.resource_id \in EnforceableResources(rule.provider_id, "scale_down")
            [] rule.action_on_exceed = "terminate_ephemeral" ->
                 /\ x.action = "terminate"
                 /\ x.resource_id \in
                       EnforceableResources(rule.provider_id, "terminate_ephemeral")
            [] OTHER -> FALSE

\* The entries an exceeded rule b accounts for.
ProducedBy(b) ==
    {x \in [provider_id : {rules[b].provider_id},
            resource_id : ResourceIds \cup {None},
            action : {"alert", "scale_down", "terminate"}] : Produces(b, x)}

CountIn(entries, x) == Cardinality({i \in DOMAIN entries : entries[i] = x})

\* How many exceeded rules in the scope of enforce_budget(pid) account for x.
ExpectedCount(pid, x) ==
    Cardinality({b \in ExpectedRules(pid) : RuleExceeded(b) /\ Produces(b, x)})

\* C17: the list enforce_budget returns holds nothing for a rule that is ok
\* or at warning, one alert entry for each exceeded rule with action alert,
\* and for each exceeded rule with action scale_down or terminate_ephemeral one
\* scale_down or terminate entry per selected resource and no entry when none
\* is selected; it holds nothing else.
C17_ActionList ==
    [][\A pid \in Providers \cup {None}, ord \in CostOrders :
          EnforceBudget(pid, ord) =>
              /\ \A i \in DOMAIN actions_taken' :
                    CountIn(actions_taken', actions_taken'[i])
                        = ExpectedCount(pid, actions_taken'[i])
              /\ \A b \in ExpectedRules(pid) :
                    RuleExceeded(b) =>
                        \A x \in ProducedBy(b) :
                            CountIn(actions_taken', x) = ExpectedCount(pid, x)]_vars

\* enforce_budget has returned the alert of the global rule alone while the
\* other rule, terminate_ephemeral, is exceeded and selects no resource.
C17_Witness ==
    /\ actions_taken = <<[provider_id |-> None, resource_id |-> None, action |-> "alert"]>>
    /\ rules["b1"].action_on_exceed = "terminate_ephemeral"
    /\ RuleExceeded("b1")
    /\ \E r \in ResourceIds :
          /\ resources[r].status = "running"
          /\ resources[r].auto_terminate
          /\ resources[r].protection_level = "standard"
          /\ resources[r].provider_id \in ScopeOf(rules["b1"].provider_id)
    /\ action_log = <<>>

\* C18: for every entry enforce_budget returns for a selected resource, the
\* adapter operation of that entry (scale_down or terminate) has been issued
\* for the resource when enforce_budget returns.
C18_AdapterOperationIssued ==
    [][\A pid \in Providers \cup {None}, ord \in CostOrders :
          EnforceBudget(pid, ord) =>
              \A i \in DOMAIN actions_taken' :
                  actions_taken'[i].resource_id # None =>
                      \E k \in DOMAIN adapter_calls' :
                          /\ adapter_calls'[k].resource_id = actions_taken'[i].resource_id
                          /\ adapter_calls'[k].op = actions_taken'[i].action]_vars

\* The resources the claim names as the targets of rule b.
ExpectedTargets(b) ==
    {r \in ResourceIds :
        /\ resources[r].status = "running"
        /\ resources[r].protection_level # "critical"
        /\ resources[r].provider_id \in ScopeOf(rules[b].provider_id)
        /\ resources[r].auto_terminate
        /\ (rules[b].action_on_exceed = "terminate_ephemeral" =>
               resources[r].protection_level = "ephemeral")}

\* The resources named by the entries of one action for one scope.
EntryTargets(entries, provider_id, action) ==
    {entries[i].resource_id :
        i \in {k \in DOMAIN entries : /\ entries[k].provider_id = provider_id
                                      /\ entries[k].action = action}}

\* C19: the resources enforce_budget names for an exceeded scale_down or
\* terminate_ephemeral rule are exactly those that are running, not critical,
\* of the rule's provider (any provider for a global rule) and have
\* auto_terminate set, and for terminate_ephemeral are ephemeral as well.
C19_TargetSet ==
    [][\A pid \in Providers \cup {None}, ord \in CostOrders :
          EnforceBudget(pid, ord) =>
              \A b \in ExpectedRules(pid) :
                  (RuleExceeded(b) /\ rules[b].action_on_exceed
                                         \in {"scale_down", "terminate_ephemeral"}) =>
                      EntryTargets(actions_taken', rules[b].provider_id,
                                   IF rules[b].action_on_exceed = "scale_down"
                                   THEN "scale_down" ELSE "terminate")
                          = ExpectedTargets(b)]_vars

\* A global scale_down rule has selected a standard resource with
\* auto_terminate and left out a running standard resource without it.
C19_Witness ==
    /\ rules["b1"].action_on_exceed = "scale_down"
    /\ rules["b1"].provider_id = None
    /\ \E r, q \in ResourceIds :
          /\ resources[r].protection_level = "standard"
          /\ resources[r].auto_terminate
          /\ resources[q].protection_level = "standard"
          /\ resources[q].status = "running"
          /\ ~resources[q].auto_terminate
          /\ EntryTargets(actions_taken, None, "scale_down") = {r}
    /\ Len(action_log) = 1

\* The positions of the entries that name a resource.
TargetPositions(entries) == {i \in DOMAIN entries : entries[i].resource_id # None}

\* C20: the entries enforce_budget returns for the resources of a rule, and
\* the ActionLog rows it adds for them, come in non-increasing order of
\* monthly_cost_estimate.
C20_CostDescending ==
    [][\A pid \in Providers \cup {None}, ord \in CostOrders :
          EnforceBudget(pid, ord) =>
              /\ \A i, j \in TargetPositions(actions_taken') :
                    i < j => resources[actions_taken'[i].resource_id].monthly_cost_estimate
                               >= resources[actions_taken'[j].resource_id].monthly_cost_estimate
              /\ Len(action_log') = Len(action_log)
                                       + Cardinality(TargetPositions(actions_taken'))
              /\ \A i, j \in (Len(action_log) + 1)..Len(action_log') :
                    i < j => resources[action_log'[i].resource_id].monthly_cost_estimate
                               >= resources[action_log'[j].resource_id].monthly_cost_estimate]_vars

\* Two resources of different cost have been handled, the dearer one first.
C20_Witness ==
    /\ Len(actions_taken) >= 2
    /\ actions_taken[1].resource_id # None
    /\ actions_taken[2].resource_id # None
    /\ resources[actions_taken[1].resource_id].monthly_cost_estimate
          > resources[actions_taken[2].resource_id].monthly_cost_estimate
    /\ Len(action_log) = 2
    /\ action_log[1].resource_id = actions_taken[1].resource_id
    /\ action_log[2].resource_id = actions_taken[2].resource_id

(***************************************************************************)
(* Properties of the provider registry.                                    *)
(***************************************************************************)

\* C21: between two evictions of a provider, every successful get_adapter
\* for it returns the same adapter object, and exactly one object has been
\* authenticated for it; a cache hit authenticates nothing, constructs
\* nothing and does not load the ProviderConfig row.
C21_OneInstancePerCachePeriod ==
    /\ [](\A p \in Providers :
            handed[p] # {} => /\ Cardinality(handed[p]) = 1
                              /\ authed[p] = handed[p])
    /\ [][\A t \in Threads, p \in Providers :
            GetAdapterHit(t, p) => /\ UNCHANGED <<authed, next_instance, instances>>
                                   /\ ga'[t].pc = "idle"
                                   /\ ga'[t].config = None]_vars

\* Whether get_adapter can construct an adapter for the provider: its row
\* exists and a class is registered for the row's provider_type.
Constructible(provider_id) ==
    /\ configs[provider_id] # None
    /\ configs[provider_id] \in DOMAIN adapter_classes

\* C22: a get_adapter call that fails (no ProviderConfig row, no class
\* registered for the row's type, or authenticate raising) raises to its
\* caller and leaves the instance cache exactly as it was; the object of a
\* failed call is never cached, and a later call that finds the provider
\* uncached goes through the load, construction and authentication again.
C22_FailureLeavesCache ==
    /\ [][\A t \in Threads :
            /\ (LoadConfig(t) /\ ~Constructible(ga[t].provider_id))
                 => /\ ga'[t].result = KeyError
                    /\ ga'[t].pc = "idle"
                    /\ UNCHANGED <<instances, next_instance>>
            /\ Authenticate(t, FALSE)
                 => /\ ga'[t].result = AuthError
                    /\ ga'[t].pc = "idle"
                    /\ UNCHANGED instances]_vars
    /\ [](\A t \in Threads, p \in DOMAIN instances :
            ga[t].result[1] = "raise" => instances[p] # ga[t].adapter)
    /\ [][\A t \in Threads, p \in Providers :
            GetAdapterMiss(t, p) => /\ ga'[t].pc = "loading"
                                    /\ ga'[t].provider_id = p]_vars

\* Object 1 failed to authenticate for p1 and is not cached; a further call
\* for p1 has constructed object 2 and is authenticating it.
C22_Witness ==
    /\ ga["t2"].result = AuthError
    /\ ga["t2"].provider_id = "p1"
    /\ ga["t2"].adapter = 1
    /\ "p1" \notin DOMAIN instances
    /\ ga["t1"].pc = "authenticating"
    /\ ga["t1"].provider_id = "p1"
    /\ ga["t1"].adapter = 2

\* C23: clear_cache(provider_id) removes that provider's entry and leaves
\* every other entry and the class mapping as they were; clear_cache()
\* empties the cache and leaves the class mapping as it was; every object
\* get_adapter returns for a provider after the provider's eviction is one
\* constructed and authenticated after that eviction.
C23_EvictionFrame ==
    /\ [][\A p \in Providers :
            ClearCache(p) => /\ DOMAIN instances' = DOMAIN instances \ {p}
                             /\ \A q \in DOMAIN instances' : instances'[q] = instances[q]
                             /\ UNCHANGED adapter_classes]_vars
    /\ [][ClearCache(None) => /\ DOMAIN instances' = {}
                              /\ UNCHANGED adapter_classes]_vars
    /\ [](\A p \in Providers : handed[p] \subseteq authed[p])

\* C30: the cache is mutated under synchronization: between two evictions
\* of a provider at most one adapter object is authenticated for it and
\* every caller receives that one object, whatever the interleaving of the
\* callers; and the cache never holds, for a provider, an object from before
\* the provider's last eviction.
C30_SynchronizedCache ==
    \A p \in Providers :
        /\ Cardinality(authed[p]) <= 1
        /\ Cardinality(handed[p]) <= 1
        /\ p \in DOMAIN instances => instances[p] \in authed[p]

(***************************************************************************)
(* Properties of the periodic loops.                                       *)
(***************************************************************************)

\* The step by which a loop starts a cycle.
CycleStart(l) ==
    /\ task[l] = "ready"
    /\ task'[l] \in {"sleeping", "alerting"}

\* The step by which a loop's cycle ends with an exception.
CycleFails(l) ==
    /\ task[l] \in {"ready", "alerting"}
    /\ ~cancel_requested[l]
    /\ task'[l] \notin {"ready", "alerting"}
    /\ last_cycle'[l] = "error"

\* C24: for each of the three loops, a cycle that raises an exception is
\* followed by the sleep and, unless the loop is cancelled, by another
\* cycle; a loop that is never cancelled never exits and starts cycles
\* again and again (it is ready to run a cycle infinitely often and, a
\* ready loop leaving that position only by running a cycle, past the start
\* of a cycle infinitely often).
C24_LoopSurvivesFailure ==
    /\ [][\A l \in Loops :
            /\ CycleFails(l) => task'[l] = "sleeping"
            /\ (task[l] = "ready" /\ task'[l] # "ready" /\ ~cancel_requested[l])
                  => CycleStart(l)]_vars
    /\ \A l \in Loops :
        /\ (task[l] = "sleeping" /\ last_cycle[l] = "error")
              ~> (task[l] = "ready" \/ cancel_requested[l])
        /\ \/ <>cancel_requested[l]
           \/ /\ [](task[l] # "exited")
              /\ []<>(task[l] = "ready")
              /\ []<>(task[l] # "ready")

\* Every loop sleeps after a failed cycle, none cancelled.
C24_Witness ==
    \A l \in Loops :
        /\ task[l] = "sleeping"
        /\ last_cycle[l] = "error"
        /\ ~cancel_requested[l]

\* The step by which a loop's coroutine ends.
LoopExits(l) ==
    /\ task[l] \notin {"none", "exited"}
    /\ task'[l] = "exited"

\* C25: a cancellation takes effect only at the sleep: a loop exits only
\* from its sleep (or before its first cycle), never inside a cycle, so a
\* budget cycle that has started has dispatched every alert and run the
\* enforcement it owed when the loop exits; the exit undoes nothing the
\* cycle recorded; after the request the loop starts no further cycle and
\* eventually exits.
C25_CancelOnlyAtSleep ==
    /\ [][\A l \in Loops :
            /\ LoopExits(l) => /\ task[l] \in {"sleeping", "ready"}
                               /\ l = BudgetEnforcement
                                    => (alerts_left = 0 /\ enforced = must_enforce)
                               /\ UNCHANGED <<last_cycle, enforced>>
            /\ cancel_requested[l] => ~CycleStart(l)]_vars
    /\ \A l \in Loops : cancel_requested[l] ~> (task[l] = "exited")

(***************************************************************************)
(* Properties of the application.                                          *)
(***************************************************************************)

\* C26: while the application runs, each of the three periodic loops has a
\* live task, and the shutdown requests the cancellation of every one of
\* them.
C26_AllLoopsRunAndStop ==
    /\ [](app = "running" => \A l \in Loops : task[l] \notin {"none", "exited"})
    /\ [][LifespanShutdown =>
            \A l \in Loops : cancel_requested'[l] \/ task'[l] = "exited"]_vars

\* The step of a terminate request for a critical resource.
TerminateCritical(resource_id) ==
    /\ resource_id \in DOMAIN resources
    /\ resources[resource_id].protection_level = "critical"
    /\ \E auth_ok \in BOOLEAN, op_outcome \in OpOutcomes :
          PerformAction(resource_id, "terminate", auth_ok, op_outcome)

\* C27: a terminate request for a critical resource invokes no adapter
\* operation, neither terminate nor authenticate, leaves the resource's
\* status as it was and logs the action as failed.
C27_CriticalRejectedBeforeProvider ==
    [][\A rid \in ResourceIds :
         TerminateCritical(rid) => /\ op_calls' = <<>>
                                   /\ next_instance' = next_instance
                                   /\ resources'[rid].status = resources[rid].status
                                   /\ action_log'[Len(action_log')].status = "failed"
                                   /\ action_log'[Len(action_log')].action_type = "terminate"]_vars

(***************************************************************************)
(* Concurrent use of the breaker and of the tracker.                       *)
(***************************************************************************)

\* The (state, failure_count) pairs a breaker holds at any instant: the
\* count is below the threshold exactly while the breaker is CLOSED.
HeldTogether(st, cnt) == (st = CLOSED) <=> (cnt < failure_threshold)

\* C28: under every interleaving the transitions are atomic: no
\* record_failure increment is lost (the count is the number of failures
\* since the last success) and the fields are those of a sequential run;
\* and every get_status result is a (state, failure_count) pair that the
\* breaker held at one instant.
C28_AtomicSnapshot ==
    /\ failure_count = consec
    /\ HeldTogether(cb_state, failure_count)
    /\ status # NoStatus => HeldTogether(status.state, status.failure_count)

\* C29: under every interleaving each tracker operation takes effect at one
\* instant: outside a record call the buffer holds the newest entries
\* recorded since the last clear, at most max_entries of them; no reader,
\* get_errors or count, observes more than max_entries entries; and a
\* get_errors result is the newest-first content of the buffer at the
\* instant of the call.
C29_TrackerLinearizable ==
    /\ [](et_lock = None => et_entries = KeepLast(et_recorded, et_max))
    /\ [](et_count.read => et_count.value <= et_max)
    /\ [](Len(et_returned.entries) <= et_max)
    /\ [][\A source \in Sources \cup {None}, limit \in (-1)..MaxLimit :
            LockedGetErrors(source, limit)
               => et_returned'.entries
                    = GetErrors(KeepLast(et_recorded, et_max), source, limit)]_vars

\* C37: in every reachable state of a breaker with failure_threshold >= 1,
\* whatever the interleaving of record_success, record_failure, state reads
\* and call: a CLOSED breaker has counted fewer failures than the threshold,
\* and an OPEN or HALF_OPEN breaker has counted at least one.
C37_StateBoundsCount ==
    /\ failure_threshold >= 1
    /\ cb_state = CLOSED => failure_count < failure_threshold
    /\ cb_state \in {OPEN, HALF_OPEN} => failure_count >= 1

\* A breaker that opened while another thread's call was still running func,
\* and one that a state read moved to HALF_OPEN.
C37_Witness ==
    /\ cb_state \in {OPEN, HALF_OPEN}
    /\ failure_count >= failure_threshold
    /\ \E t \in Threads : pc[t] = "running" /\ seen[t] = CLOSED

\* base * factor^n.
RECURSIVE Scaled(_, _, _)
Scaled(base, factor, n) == IF n = 0 THEN base ELSE Scaled(base, factor, n - 1) * factor

\* C34: for every parameter choice the delay slept before the k-th retry,
\* before jitter, is min(base_delay * backoff_factor^(k-1), max_delay); no
\* sleep, the first included, is based on a delay above max_delay.
C34_DelayCapped ==
    \A k \in 1..Len(sleeps) :
        /\ sleeps[k][1] = Min(Scaled(rcfg.base_delay, rcfg.backoff_factor, k - 1),
                              rcfg.max_delay)
        /\ sleeps[k][1] <= rcfg.max_delay

\* Invocations of the wrapped function so far, when it has failed every
\* time: the failures recorded plus the invocation in progress.
Invocations == consec + (IF pc[ResThread] = "running" THEN 1 ELSE 0)

\* C36: across a sequence of resilient calls on one adapter whose function
\* fails on every invocation, within reset_timeout, the function is invoked
\* failure_threshold (5) times in total: each failed attempt is one breaker
\* failure, the breaker is open exactly from the threshold-th failure on, and
\* from then on every attempt, of the current call and of later calls, is
\* rejected without an invocation.
C36_InvokedThresholdTimes ==
    /\ [](failure_threshold = 5 /\ Invocations <= failure_threshold)
    /\ [](failure_count = consec)
    /\ []((cb_state = OPEN) <=> (consec = failure_threshold))
    /\ [](pc[ResThread] = "rejected" => Invocations = failure_threshold)
    /\ [][consec = failure_threshold
            => /\ consec' = consec
               /\ pc'[ResThread] # "running"]_vars

\* A later call of which all three attempts were rejected, after five
\* invocations spread over the two calls before it.
C36_Witness ==
    /\ consec = 5
    /\ r_pc = "raised"
    /\ r_result = CircuitBreakerError
    /\ Len(calls) = 3
    /\ \A i \in 1..3 : calls[i] = CircuitBreakerError

(***************************************************************************)
(* Further properties of enforcement, retry and the breaker.               *)
(***************************************************************************)

\* C38: enforce_budget, whatever the rule actions, leaves every resource
\* row, every BudgetRule and every SpendingRecord as it was; it only appends
\* ActionLog rows, one pending row per selected target; and a second run with
\* nothing else changed selects the same targets and appends as many rows.
C38_EnforceFrame ==
    /\ [][\A pid \in Providers \cup {None}, ord \in CostOrders :
            EnforceBudget(pid, ord) =>
                /\ resources' = resources
                /\ rules' = rules
                /\ spending' = spending
                /\ adapter_calls' = adapter_calls
                /\ Len(action_log') = Len(action_log)
                                         + Cardinality(TargetPositions(actions_taken'))
                /\ SubSeq(action_log', 1, Len(action_log)) = action_log
                /\ \A i \in 1..(Len(action_log') - Len(action_log)) :
                      LET row == action_log'[Len(action_log) + i]
                          en == actions_taken'[
                                  CHOOSE k \in TargetPositions(actions_taken') :
                                    Cardinality({n \in TargetPositions(actions_taken') :
                                                    n <= k}) = i]
                      IN /\ row.status = "pending"
                         /\ row.resource_id = en.resource_id
                         /\ row.action_type = en.action]_vars
    /\ [](actions_taken # <<>> =>
            \E pid \in Providers \cup {None}, ord \in CostOrders :
                AllEntries(CheckBudget(pid), 1, ord) = actions_taken)

\* enforce_budget has run twice over the same rows: two pending rows for the
\* same resource, which is still running and still selected.
C38_Witness ==
    /\ Len(action_log) = 2
    /\ action_log[1] = action_log[2]
    /\ action_log[1].status = "pending"
    /\ Len(actions_taken) >= 1
    /\ \E i \in TargetPositions(actions_taken) :
          /\ actions_taken[i].resource_id = action_log[1].resource_id
          /\ resources[action_log[1].resource_id].status = "running"
    /\ Cardinality(TargetPositions(actions_taken)) = 1

\* The rule actions enforce_budget acts on.
HandledActions == {"alert", "scale_down", "terminate_ephemeral"}

\* The (rule, entry) pairs the exceeded rules in scope other than b account for.
OthersProduce(pid, b) ==
    {<<c, x>> \in (ExpectedRules(pid) \ {b})
                    \X [provider_id : Providers \cup {None},
                        resource_id : ResourceIds \cup {None},
                        action : {"alert", "scale_down", "terminate"}] :
        RuleExceeded(c) /\ Produces(c, x)}

C33_CycleAlertsAndEnforces ==
    [][/\ (task[BudgetEnforcement] = "ready" /\ task'[BudgetEnforcement] = "sleeping")
          => (alerts_left' = 0 /\ ~enforced')
       /\ (task[BudgetEnforcement] = "alerting" /\ task'[BudgetEnforcement] # "alerting")
          => (alerts_left <= 1 /\ enforced' = must_enforce)]_vars

(***************************************************************************)
(* Properties of the adapters' breakers, the rule endpoints, the spending  *)
(* sync and concurrent record_spending.                                    *)
(***************************************************************************)

\* The adapter objects that hold a breaker made for provider p.
BreakerHolders(p) == {i \in DOMAIN circuit_breakers : circuit_breakers[i].provider_id = p}

\* C31: each provider has one circuit breaker for the life of the process:
\* no second breaker is ever made for it, and whatever adapter the registry
\* holds for it after clear_cache and get_adapter, the next call works with
\* that breaker's state and failure count (an OPEN breaker is still OPEN).
C31_OneBreakerPerProvider ==
    \A p \in Providers :
        /\ Cardinality(BreakerHolders(p)) <= 1
        /\ p \in DOMAIN instances =>
              \A i \in BreakerHolders(p) :
                  GetCircuitBreaker(instances[p], p) = circuit_breakers[i]

\* C32: after any sequence of budget-rule create and update operations
\* every stored BudgetRule has monthly_limit > 0 and alert_threshold within
\* [0, 1] (0 to 100 percent), so check_budget never takes its branch for a
\* limit that is not positive.
C32_StoredRulesValid ==
    \A b \in DOMAIN rules :
        /\ rules[b].monthly_limit > 0
        /\ rules[b].alert_threshold >= 0
        /\ rules[b].alert_threshold <= 100
        /\ \A spent \in 0..MaxCost :
              StatusOf(spent, rules[b].monthly_limit, rules[b].alert_threshold)
                 = IF spent >= rules[b].monthly_limit THEN "exceeded"
                   ELSE IF spent * 100 >= rules[b].alert_threshold * rules[b].monthly_limit
                   THEN "warning" ELSE "ok"


\* The providers that have a ProviderConfig row.
Listed == {p \in Providers : configs[p] # None}

\* C35: sync_spending_once returns one result entry per provider and a
\* failure while handling one provider (adapter not obtained or not
\* authenticated, get_spending failing) is that provider's error entry and
\* leaves the later providers synced; a SpendingRecord is written only for a
\* provider whose adapter returned an amount >= 0, for the current period.
C35_OneEntryPerProvider ==
    /\ [](sync_result.called =>
             /\ sync_result.outcome = "return"
             /\ Len(sync_result.providers) = Cardinality(Listed)
             /\ {sync_result.providers[i].provider_id :
                     i \in DOMAIN sync_result.providers} = Listed)
    /\ [][\A row \in spending' \ spending :
             /\ row.period = CurrentPeriod
             /\ row.amount >= 0
             /\ \E i \in DOMAIN sync_result'.providers :
                   sync_result'.providers[i] =
                       [provider_id |-> row.provider_id, status |-> "ok"]]_vars


\* C40: when record_spending calls for one (provider_id, period) run in
\* different sessions at once and no record exists yet for the key, there is
\* afterwards at most one SpendingRecord for the key, and get_spending
\* returns the amount of the call that committed last, never the sum.
C40_OneRecordPerKey ==
    /\ [](\A p \in Providers : Cardinality(RecordsOf(p, CurrentPeriod)) <= 1)
    /\ [][\A c \in Sessions :
             rs[c].pc # "idle" /\ rs'[c].pc = "idle" =>
                 SumAmounts({row \in spending' :
                                /\ row.period = rs[c].period
                                /\ row.provider_id = rs[c].provider_id})
                     = rs[c].amount]_vars
====
